---- MODULE Spec2Model ----
(***************************************************************************)
(* A model of emf_reader: the object-graph builder (export.py), the        *)
(* expression/predicate engine (query.py) and the filter and expansion     *)
(* engine (export.py), with the part of the command-line front end         *)
(* (cli.py) that reports expression errors.                                *)
(*                                                                         *)
(* Model objects are the numbers 1..NObj (1..NExp where the expansions     *)
(* run).  Every class of the metamodel                                     *)
(* declares the same four references, in the order of Refs; the slot of    *)
(* object o for reference r is slots[o][r], a sequence of objects (a       *)
(* scalar slot holds at most one; the empty sequence is None).             *)
(***************************************************************************)
EXTENDS Integers, Sequences, FiniteSets, TLC

VARIABLES
    pc,             \* position of the running operation
    cls,            \* obj.eClass.name of every model object
    slots,          \* obj.eGet(ref) of every model object and reference
    attributes,     \* the attribute values of every model object
    internal_id,    \* obj._internal_id of every model object, "" when absent
    roots,          \* the roots sequence handed to build_object_graph
    objects,        \* build_object_graph: the returned List[ObjectInfo]
    edges,          \* build_object_graph: the returned containment edges
    expr,           \* the expression text handed to build_predicate
    outcome,        \* build_predicate: the exception raised or the predicate
    ctx_node,       \* the ObjectInfo a predicate is evaluated on
    result,         \* predicate(ctx): its result, or the exception raised
    argv,           \* main: the parsed command line
    main_result,    \* main: exit status, error logged, exception escaped
    params,         \* the arguments of the function called
    ex,             \* _expand_from, export_filtered_instance: the local variables
    af,             \* _apply_filter: its local variables
    ret,            \* what the function called returned or raised
    export,         \* an export function: its name, the file before, its output
    file            \* the output file of the export

graphVars == <<cls, slots, attributes, internal_id, roots, objects, edges>>
exprVars == <<expr, outcome, ctx_node, result, argv, main_result>>
expandVars == <<params, ex, af, ret>>
exportVars == <<export, file>>
vars == <<pc, graphVars, exprVars, expandVars, exportVars>>

(***************************************************************************)
(* Bounds of the model.                                                    *)
(***************************************************************************)
NObj == 3

Objects == 1..NObj

(***************************************************************************)
(* The metamodel: eAllReferences() of every class, in declaration order.   *)
(***************************************************************************)
Refs == <<
    [name |-> "children", many |-> TRUE,  containment |-> TRUE],
    [name |-> "child",    many |-> FALSE, containment |-> TRUE],
    [name |-> "refs",     many |-> TRUE,  containment |-> FALSE],
    [name |-> "ref",      many |-> FALSE, containment |-> FALSE] >>

RefIdx == 1..Len(Refs)

\* _all_features(obj, "eAllReferences"): the indices of Refs, in order.
AllReferences == [i \in RefIdx |-> i]

\* A mutant: every reference is taken for a containment reference.
ContainmentFeaturesAll == AllReferences

\* _containment_features(obj): the references with containment set, in order.
ContainmentFeatures ==
    LET IsCont(r) == Refs[r].containment IN SelectSeq(AllReferences, IsCont)

\* f"o{n}", f"[{idx}]"
Str(n) == ToString(n)

(***************************************************************************)
(* build_object_graph.  Its closure state is st = [seen, edges]: seen is   *)
(* the insertion-ordered dict obj -> ObjectInfo, kept as the sequence of   *)
(* its values.                                                             *)
(***************************************************************************)
SeenObjs(seen) == {seen[i].obj : i \in 1..Len(seen)}

InfoOf(seen, obj) == seen[CHOOSE i \in 1..Len(seen) : seen[i].obj = obj]

\* A mutant: ensure without the membership test, a second info per visit.
ensureAlways(obj, path, st) ==
    [st EXCEPT !.seen = Append(@,
        [obj |-> obj, obj_id |-> "o" \o Str(Len(st.seen) + 1), path |-> path])]

\* A mutant: the ids are numbered from o0.
ensureFromZero(obj, path, st) ==
    IF obj \in SeenObjs(st.seen) THEN st
    ELSE [st EXCEPT !.seen = Append(@,
            [obj |-> obj, obj_id |-> "o" \o Str(Len(st.seen)), path |-> path])]

\* A mutant: a seen object takes the path it is reached by again.
ensureLastPath(obj, path, st) ==
    IF obj \in SeenObjs(st.seen)
    THEN [st EXCEPT !.seen = [i \in 1..Len(@) |->
                IF @[i].obj = obj THEN [@[i] EXCEPT !.path = path] ELSE @[i]]]
    ELSE [st EXCEPT !.seen = Append(@,
            [obj |-> obj, obj_id |-> "o" \o Str(Len(st.seen) + 1), path |-> path])]

\* if obj in seen: return seen[obj]; else a new ObjectInfo with the next id
ensure(obj, path, st) ==
    IF obj \in SeenObjs(st.seen) THEN st
    ELSE [st EXCEPT !.seen = Append(@,
            [obj |-> obj, obj_id |-> "o" \o Str(Len(st.seen) + 1), path |-> path])]

\* The edge dict appended for (info, ref, child_info).
ContainmentEdge(info, r, child_info, classOf) ==
    [src_id |-> info.obj_id, src_class |-> classOf[info.obj],
     feature |-> Refs[r].name,
     dst_id |-> child_info.obj_id, dst_class |-> classOf[child_info.obj],
     containment |-> TRUE]

RECURSIVE visit(_, _, _, _, _)
RECURSIVE visit_items(_, _, _, _, _, _)
RECURSIVE visit_refs(_, _, _, _, _)

\* Lines 67-79 and 84-96: one child of a slot, at slot index idx (0-based).
visit_child(info, r, idx, child, st, classOf, slotOf) ==
    LET child_path == info.path \o "/" \o Refs[r].name \o "[" \o Str(idx) \o "]"
        st1 == ensure(child, child_path, st)
        child_info == InfoOf(st1.seen, child)
        st2 == [st1 EXCEPT !.edges =
                    Append(@, ContainmentEdge(info, r, child_info, classOf))]
    IN visit(child, child_path, st2, classOf, slotOf)

\* for idx, child in enumerate(list(value)), from position i (1-based).
visit_items(info, r, i, st, classOf, slotOf) ==
    LET value == slotOf[info.obj][r] IN
    IF i > Len(value) THEN st
    ELSE visit_items(info, r, i + 1,
            visit_child(info, r, i - 1, value[i], st, classOf, slotOf),
            classOf, slotOf)

\* for ref in _containment_features(obj), from position k of that list.
visit_refs(info, k, st, classOf, slotOf) ==
    IF k > Len(ContainmentFeatures) THEN st
    ELSE LET r == ContainmentFeatures[k]
             value == slotOf[info.obj][r]
             st1 == IF value = <<>> THEN st
                    ELSE IF Refs[r].many
                         THEN visit_items(info, r, 1, st, classOf, slotOf)
                         ELSE visit_child(info, r, 0, value[1], st, classOf, slotOf)
         IN visit_refs(info, k + 1, st1, classOf, slotOf)

visit(obj, path, st, classOf, slotOf) ==
    LET st1 == ensure(obj, path, st)
        info == InfoOf(st1.seen, obj)
    IN visit_refs(info, 1, st1, classOf, slotOf)

RECURSIVE visit_roots(_, _, _, _, _)
\* for idx, root in enumerate(roots): visit(root, f"/{root.eClass.name}[{idx}]")
visit_roots(rs, i, st, classOf, slotOf) ==
    IF i > Len(rs) THEN st
    ELSE visit_roots(rs, i + 1,
            visit(rs[i], "/" \o classOf[rs[i]] \o "[" \o Str(i - 1) \o "]",
                  st, classOf, slotOf),
            classOf, slotOf)

build_object_graph(rs, classOf, slotOf) ==
    LET st == visit_roots(rs, 1, [seen |-> <<>>, edges |-> <<>>], classOf, slotOf)
    IN [objects |-> st.seen, edges |-> st.edges]

\* A mutant: the node list comes back in an order of its own at every call,
\* as a list made from a set would.
build_results_any_order(rs, classOf, slotOf) ==
    LET g == build_object_graph(rs, classOf, slotOf)
        n == Len(g.objects)
    IN {[objects |-> [i \in 1..n |-> g.objects[f[i]]], edges |-> g.edges] :
            f \in {h \in [1..n -> 1..n] : \A i, j \in 1..n : h[i] = h[j] => i = j}}

\* What a call of build_object_graph may return: seen is a dict and edges a
\* list, both iterated in insertion order, and the features and slots are
\* lists, so one call has one result.
build_results(rs, classOf, slotOf) == {build_object_graph(rs, classOf, slotOf)}

(***************************************************************************)
(* The expression engine (query.py).  A syntax tree node is                *)
(* [type, id, kids]: type is the name of its ast class, id the identifier, *)
(* constant or keyword name it carries, kids its child nodes in the order  *)
(* of ast.iter_child_nodes (the order of the class's _fields).             *)
(***************************************************************************)
Node(type, id, kids) == [type |-> type, id |-> id, kids |-> kids]
Op(type) == Node(type, "", <<>>)
Load == Op("Load")
Name(id) == Node("Name", id, <<Load>>)
Constant(v) == Node("Constant", v, <<>>)
Compare(left, op, right) == Node("Compare", "", <<left, Op(op), right>>)
BoolOp(op, values) == Node("BoolOp", "", <<Op(op)>> \o values)
UnaryOp(op, operand) == Node("UnaryOp", "", <<Op(op), operand>>)
keyword(arg, value) == Node("keyword", arg, <<value>>)
Call(func, args, keywords) == Node("Call", "", <<func>> \o args \o keywords)
List(elts) == Node("List", "", elts \o <<Load>>)
Subscript(value, slice) == Node("Subscript", "", <<value, slice, Load>>)
Attribute(value, attr) == Node("Attribute", attr, <<value, Load>>)
BinOp(left, op, right) == Node("BinOp", "", <<left, Op(op), right>>)
IfExp(test, body, orelse) == Node("IfExp", "", <<test, body, orelse>>)
Expression(body) == Node("Expression", "", <<body>>)

\* _ALLOWED_NODES, with ast.Index and ast.Slice where the ast module has them.
ALLOWED_NODES ==
    {"Expression", "BoolOp", "UnaryOp", "Compare", "Name", "Load", "Constant",
     "List", "Tuple", "Set", "Dict", "Subscript", "Call", "Index", "Slice"}

\* _ALLOWED_OPS
ALLOWED_OPS ==
    {"And", "Or", "Not", "Eq", "NotEq", "Lt", "LtE", "Gt", "GtE", "In", "NotIn"}

\* str.startswith
startswith(str, prefix) ==
    Len(str) >= Len(prefix) /\ SubSeq(str, 1, Len(prefix)) = prefix

RECURSIVE walk_queue(_)
\* ast.walk: breadth first, a node before its children.
walk_queue(todo) ==
    IF todo = <<>> THEN <<>>
    ELSE <<Head(todo)>> \o walk_queue(Tail(todo) \o Head(todo).kids)

walk(tree) == walk_queue(<<tree>>)

\* node.func and node.keywords of a Call node.
FuncOf(node) == node.kids[1]
KeywordsOf(node) == SelectSeq(node.kids, LAMBDA k : k.type = "keyword")
ArgsOf(node) == SelectSeq(Tail(node.kids), LAMBDA k : k.type # "keyword")

\* A mutant: the test of the callee's name is missing.
validate_node_any_callee(node) ==
    IF node.type \notin ALLOWED_NODES \cup ALLOWED_OPS
    THEN "Unsupported expression element: " \o node.type
    ELSE IF node.type = "Name" /\ startswith(node.id, "__")
    THEN "Invalid name in expression"
    ELSE IF node.type = "Call"
    THEN IF FuncOf(node).type # "Name"
         THEN "Invalid function call in expression"
         ELSE IF KeywordsOf(node) # <<>>
         THEN "Keyword arguments are not supported"
         ELSE ""
    ELSE ""

\* The body of the loop of _validate_expr: the message of the ValueError
\* raised at this node, "" when none is.
validate_node(node) ==
    IF node.type \notin ALLOWED_NODES \cup ALLOWED_OPS
    THEN "Unsupported expression element: " \o node.type
    ELSE IF node.type = "Name" /\ startswith(node.id, "__")
    THEN "Invalid name in expression"
    ELSE IF node.type = "Call"
    THEN IF FuncOf(node).type # "Name"
         THEN "Invalid function call in expression"
         ELSE IF FuncOf(node).id \notin {"is_class", "is_kind_of"}
         THEN "Unsupported function: " \o FuncOf(node).id
         ELSE IF KeywordsOf(node) # <<>>
         THEN "Keyword arguments are not supported"
         ELSE ""
    ELSE ""

RECURSIVE validate_from(_, _)
validate_from(nodes, i) ==
    IF i > Len(nodes) THEN ""
    ELSE IF validate_node(nodes[i]) # "" THEN validate_node(nodes[i])
    ELSE validate_from(nodes, i + 1)

\* _validate_expr(tree): the message of the first ValueError, "" when none.
validate_expr(tree) == validate_from(walk(tree), 1)

\* An expression text is [syntax_ok, body]: whether Python's parser accepts
\* it in eval mode and, when it does, the syntax tree of the expression.
NoTree == Op("")

\* ast.parse(expr, mode="eval")
ast_parse(text) ==
    IF text.syntax_ok THEN [exc |-> "", tree |-> Expression(text.body)]
    ELSE [exc |-> "SyntaxError", tree |-> NoTree]

NoPredicate == [exc |-> "", msg |-> "", code |-> NoTree]

\* build_predicate(expr): the exception it raises (exc, msg), or the
\* predicate it returns, which is the compiled tree (code).
build_predicate(text) ==
    LET parsed == ast_parse(text) IN
    IF parsed.exc # ""
    THEN [exc |-> parsed.exc, msg |-> "invalid syntax", code |-> NoTree]
    ELSE LET msg == validate_expr(parsed.tree) IN
         IF msg # "" THEN [exc |-> "ValueError", msg |-> msg, code |-> NoTree]
         ELSE [exc |-> "", msg |-> "", code |-> parsed.tree]

\* The classes of Python's exception hierarchy an exception is an instance of.
ExceptionBases(exc) ==
    CASE exc = "SyntaxError" -> {"SyntaxError", "Exception"}
      [] exc = "ValueError" -> {"ValueError", "Exception"}
      [] exc = "NameError" -> {"NameError", "Exception"}
      [] exc = "TypeError" -> {"TypeError", "Exception"}
      [] exc = "KeyError" -> {"KeyError", "LookupError", "Exception"}
      [] OTHER -> {exc}

(***************************************************************************)
(* Predicate evaluation.  A Python value is [t, v]: t its type, v its      *)
(* text.  A model object, as build_context reads it, is the record         *)
(* [eclass, attrs, internal_id]: attrs maps the attributes its class       *)
(* declares (eAllAttributes, all scalar here) to their values and          *)
(* internal_id is "" when the object carries no persisted identifier.      *)
(***************************************************************************)
StrV(str) == [t |-> "str", v |-> str]
NoneV == [t |-> "NoneType", v |-> "None"]
BoolV(b) == [t |-> "bool", v |-> IF b THEN "True" ELSE "False"]
EnumV(lit) == [t |-> "EEnumLiteral", v |-> lit]
FuncV(name) == [t |-> "function", v |-> name]
DictV(name) == [t |-> "dict", v |-> name]
Raise(exc) == [t |-> "raise", v |-> exc]
IsRaise(x) == x.t = "raise"

\* eClass.eAllSuperTypes() of the metamodel's classes: Bar extends Foo.
eAllSuperTypes(c) == IF c = "Bar" THEN {"Foo"} ELSE {}

nsURI == "urn:model"

\* _json_safe(value), for the values a scalar attribute holds.
json_safe(value) ==
    IF value.t \in {"NoneType", "str", "bool"} THEN value
    ELSE StrV(value.v)

\* The closures is_class and is_kind_of of build_context, applied to name.
is_class(obj, name) == BoolV(StrV(obj.eclass) = name)

is_kind_of(obj, name) ==
    IF StrV(obj.eclass) = name THEN BoolV(TRUE)
    ELSE BoolV(\E sup \in eAllSuperTypes(obj.eclass) : StrV(sup) = name)

preferred_id(obj, obj_id) ==
    IF obj.internal_id # "" THEN obj.internal_id ELSE obj_id

\* build_context(obj, obj_id, path): the reserved keys, then ctx.update(attrs).
build_context(obj, obj_id, path) ==
    LET attrs == [a \in DOMAIN obj.attrs |-> json_safe(obj.attrs[a])]
        ctx == [eclass |-> StrV(obj.eclass),
                nsuri |-> StrV(nsURI),
                id |-> StrV(preferred_id(obj, obj_id)),
                local_id |-> StrV(obj_id),
                ID |-> StrV(preferred_id(obj, obj_id)),
                path |-> StrV(path),
                attrs |-> DictV("attrs"),
                is_class |-> FuncV("is_class"),
                is_kind_of |-> FuncV("is_kind_of")]
    IN [k \in DOMAIN ctx \cup DOMAIN attrs |->
            IF k \in DOMAIN attrs THEN attrs[k] ELSE ctx[k]]

\* bool(value)
Truthy(value) ==
    CASE value.t = "bool" -> value.v = "True"
      [] value.t = "str" -> value.v # ""
      [] value.t = "NoneType" -> FALSE
      [] OTHER -> TRUE

RECURSIVE Eval(_, _, _)
\* eval(code, {"__builtins__": {}}, ctx) of a validated expression: its value,
\* or the exception it raises.  obj is the object the closures in ctx hold.
Eval(node, ctx, obj) ==
    CASE node.type = "Constant" -> StrV(node.id)
      [] node.type = "Name" ->
            IF node.id \in DOMAIN ctx THEN ctx[node.id] ELSE Raise("NameError")
      [] node.type = "Compare" ->
            LET left == Eval(node.kids[1], ctx, obj) IN
            IF IsRaise(left) THEN left
            ELSE LET right == Eval(node.kids[3], ctx, obj) IN
                 IF IsRaise(right) THEN right
                 ELSE (CASE node.kids[2].type = "Eq" -> BoolV(left = right)
                         [] node.kids[2].type = "NotEq" -> BoolV(left # right))
      [] node.type = "UnaryOp" ->
            LET operand == Eval(node.kids[2], ctx, obj) IN
            IF IsRaise(operand) THEN operand
            ELSE (CASE node.kids[1].type = "Not" -> BoolV(~Truthy(operand)))
      [] node.type = "BoolOp" ->
            LET first == Eval(node.kids[2], ctx, obj) IN
            IF IsRaise(first) THEN first
            ELSE (CASE node.kids[1].type = "And" ->
                        IF Truthy(first) THEN Eval(node.kids[3], ctx, obj) ELSE first
                    [] node.kids[1].type = "Or" ->
                        IF Truthy(first) THEN first ELSE Eval(node.kids[3], ctx, obj))
      [] node.type = "Call" ->
            LET func == Eval(FuncOf(node), ctx, obj) IN
            IF IsRaise(func) THEN func
            ELSE LET arg == Eval(ArgsOf(node)[1], ctx, obj) IN
                 IF IsRaise(arg) THEN arg
                 ELSE IF func = FuncV("is_class") THEN is_class(obj, arg)
                 ELSE IF func = FuncV("is_kind_of") THEN is_kind_of(obj, arg)
                 ELSE Raise("TypeError")

\* predicate(ctx) of build_predicate: bool(eval(code, ..., ctx)).
predicate(code, ctx, obj) ==
    LET value == Eval(code.kids[1], ctx, obj) IN
    IF IsRaise(value) THEN value ELSE BoolV(Truthy(value))

(***************************************************************************)
(* The instances handed to build_object_graph.  Containment is acyclic     *)
(* (the walk recurses along it), so the objects are numbered in a          *)
(* topological order of it: a slot of o holds objects above o.  An object  *)
(* may sit in two containment slots and a root may be listed twice.        *)
(***************************************************************************)
RECURSIVE DistinctSeqs(_, _)
\* The sequences of distinct members of S of length at most n.
DistinctSeqs(S, n) ==
    IF n = 0 THEN {<<>>}
    ELSE LET shorter == DistinctSeqs(S, n - 1)
             Rng(s) == {s[i] : i \in 1..Len(s)}
         IN shorter \cup
            UNION {{Append(s, x) : x \in S \ Rng(s)} :
                        s \in {t \in shorter : Len(t) = n - 1}}

Above(o) == {p \in Objects : p > o}

\* The values slot r of object o takes in the instances of the graph builder.
GraphSlotValues[o \in Objects, r \in RefIdx] ==
    IF Refs[r].containment
    THEN IF Refs[r].many THEN DistinctSeqs(Above(o), NObj)
         ELSE {<<>>} \cup {<<p>> : p \in Above(o)}
    ELSE IF ~Refs[r].many /\ o = 1 /\ NObj > 1 THEN {<<>>, <<NObj>>}
         ELSE {<<>>}

RECURSIVE SlotTables(_, _)
\* The tables k -> value of the first n (object, reference) pairs, pair k
\* being object (k-1) \div Len(Refs) + 1 and reference (k-1) % Len(Refs) + 1.
SlotTables(n, values) ==
    IF n = 0 THEN {<<>>}
    ELSE {Append(t, v) : t \in SlotTables(n - 1, values),
                         v \in values[((n - 1) \div Len(Refs)) + 1,
                                      ((n - 1) % Len(Refs)) + 1]}

SlotsOf(t) == [o \in Objects |-> [r \in RefIdx |-> t[(o - 1) * Len(Refs) + r]]]

GraphInstances == {SlotsOf(t) : t \in SlotTables(NObj * Len(Refs), GraphSlotValues)}

RECURSIVE Closure(_, _, _)
\* The objects reached from S along the references of R, S included.
Closure(S, R, slotOf) ==
    LET T == S \cup UNION {{slotOf[o][r][i] : i \in 1..Len(slotOf[o][r])} :
                                o \in S, r \in R}
    IN IF T = S THEN S ELSE Closure(T, R, slotOf)

ContRefs == {r \in RefIdx : Refs[r].containment}

Range(seq) == {seq[i] : i \in 1..Len(seq)}

\* The objects of the instance: those contained, directly or not, in a root.
Contained(rs, slotOf) == Closure(Range(rs), ContRefs, slotOf)

(***************************************************************************)
(* The expression texts, nodes and command lines of the expression engine. *)
(***************************************************************************)
NameIds == {"eclass", "is_class", "is_kind_of", "foo", "__import__", "_x"}

Atoms == {Name(n) : n \in NameIds} \cup {Constant("Foo")}

CallKeywords == {<<>>, <<keyword("name", Constant("Foo"))>>}

Callees ==
    Atoms \cup {Attribute(Name("eclass"), "startswith"),
                Subscript(Name("foo"), Constant("0"))}

Level1 ==
    {Compare(a, op, Constant("Foo")) : a \in Atoms, op \in {"Eq", "NotEq", "In", "Is"}}
    \cup {UnaryOp(op, a) : op \in {"Not", "USub"}, a \in Atoms}
    \cup {Call(f, <<Constant("Foo")>>, kw) : f \in Callees, kw \in CallKeywords}
    \cup {List(<<a>>) : a \in Atoms}
    \cup {Subscript(a, Constant("0")) : a \in Atoms}
    \cup {Attribute(a, "name") : a \in Atoms}
    \cup {BinOp(a, "Add", Constant("1")) : a \in Atoms}
    \cup {IfExp(a, Constant("1"), Constant("0")) : a \in Atoms}

Operands ==
    {Compare(Name("eclass"), "Eq", Constant("Foo")),
     Call(Name("is_kind_of"), <<Constant("Foo")>>, <<>>),
     Call(Name("foo"), <<Constant("Foo")>>, <<>>),
     Name("__import__")}

Level2 ==
    {BoolOp(op, <<x, y>>) : op \in {"And", "Or"}, x \in Level1, y \in Operands}
    \cup {UnaryOp("Not", x) : x \in Level1}
    \cup {Compare(Name("name"), "Eq", Constant("x"))}

Trees == Atoms \cup Level1 \cup Level2

\* The texts Python parses, and a text it does not (such as "eclass ==").
ExprTexts ==
    {[syntax_ok |-> TRUE, body |-> t] : t \in Trees}
    \cup {[syntax_ok |-> FALSE, body |-> NoTree]}

Text(body) == [syntax_ok |-> TRUE, body |-> body]

\* The expressions the model evaluates: eclass == 'Foo', is_kind_of('Foo'),
\* is_class('Foo'), name == 'x', and two of them joined by and, or, not.
EvalBodies ==
    LET base == {Compare(Name("eclass"), "Eq", Constant("Foo")),
                 Compare(Name("eclass"), "NotEq", Constant("Foo")),
                 Call(Name("is_kind_of"), <<Constant("Foo")>>, <<>>),
                 Call(Name("is_class"), <<Constant("Foo")>>, <<>>),
                 Compare(Name("name"), "Eq", Constant("x"))}
    IN base \cup {UnaryOp("Not", x) : x \in base}
            \cup ({BoolOp(op, <<x, y>>) : op \in {"And", "Or"}, x \in base, y \in base}
                    \cap Level2)

Classes == {"Foo", "Bar", "Baz"}

AttrValues == {StrV("Foo"), StrV("x"), NoneV, EnumV("Foo")}

\* The attributes a class may declare: none, name, and attributes named as
\* a reserved key of the predicate context.
AttrDomains == {{}, {"name"}, {"eclass"}, {"is_kind_of"}, {"name", "eclass"}}

EvalObjects ==
    {[eclass |-> c, attrs |-> a, internal_id |-> i] :
        c \in Classes,
        a \in UNION {[D -> AttrValues] : D \in AttrDomains},
        i \in {"", "_x1"}}

NoObject == [eclass |-> "", attrs |-> <<>>, internal_id |-> ""]
NoNode == [obj |-> NoObject, obj_id |-> "", path |-> ""]
NoText == [syntax_ok |-> FALSE, body |-> NoTree]
NoArgs == [entry |-> "", neighbors_from |-> <<>>, expand_from |-> <<>>,
           filter_expr |-> <<>>]
NoResult == [ret |-> 0, log |-> "", raised |-> ""]
NoParams == [expand_expr |-> NoText]
NoExpand == [exc |-> ""]
NoLocals == [neighbor_metrics |-> <<>>]
NoReturn == [exc |-> ""]

NoExport == [entry |-> ""]
NoFile == [exists |-> FALSE, holds |-> "", content |-> <<>>]
OldFile == [exists |-> TRUE, holds |-> "old", content |-> <<"old">>]

ExportIdle ==
    /\ export = NoExport
    /\ file = NoFile

ExpandIdle ==
    /\ params = NoParams
    /\ ex = NoExpand
    /\ af = NoLocals
    /\ ret = NoReturn

ExprIdle ==
    /\ expr = NoText
    /\ outcome = NoPredicate
    /\ ctx_node = NoNode
    /\ result = NoneV
    /\ argv = NoArgs
    /\ main_result = NoResult

\* One root, or two roots, which may be the same object.
RootSeqs == {<<a>> : a \in Objects} \cup {<<a, b>> : a, b \in Objects}

ClassNames == <<"Bar", "Foo">>

GraphClasses == [o \in Objects |-> ClassNames[(o % 2) + 1]]

GraphInit ==
    /\ pc = "graph_call"
    /\ cls = GraphClasses
    /\ slots \in GraphInstances
    /\ roots \in RootSeqs
    /\ \A o \in Objects \ Contained(roots, slots) :
            \A r \in RefIdx : slots[o][r] = <<>>
    /\ attributes = [o \in Objects |-> <<>>]
    /\ internal_id = [o \in Objects |-> ""]
    /\ objects = <<>>
    /\ edges = <<>>
    /\ ExprIdle
    /\ ExpandIdle
    /\ ExportIdle

\* objects, edges = build_object_graph(roots)
BuildObjectGraph ==
    /\ pc = "graph_call"
    /\ \E g \in {build_object_graph(roots, cls, slots)} :
        /\ objects' = g.objects
        /\ edges' = g.edges
    /\ pc' = "graph_done"
    /\ UNCHANGED <<cls, slots, attributes, internal_id, roots, exprVars, expandVars, exportVars>>

\* A second call of build_object_graph(roots), the graph unchanged
BuildObjectGraphAgain ==
    /\ pc = "graph_done"
    /\ \E g \in build_results(roots, cls, slots) :
        /\ objects' = g.objects
        /\ edges' = g.edges
    /\ pc' = "graph_again"
    /\ UNCHANGED <<cls, slots, attributes, internal_id, roots, exprVars, expandVars,
                   exportVars>>

GraphNext == BuildObjectGraph \/ BuildObjectGraphAgain

SpecGraph == GraphInit /\ [][GraphNext]_vars

(***************************************************************************)
(* The expression engine at work: build_predicate on a text, predicate on  *)
(* a node, and main running one export with expression options.           *)
(***************************************************************************)
GraphIdle ==
    /\ cls = GraphClasses
    /\ slots = [o \in Objects |-> [r \in RefIdx |-> <<>>]]
    /\ attributes = [o \in Objects |-> <<>>]
    /\ internal_id = [o \in Objects |-> ""]
    /\ roots = <<>>
    /\ objects = <<>>
    /\ edges = <<>>

ExprInit ==
    /\ pc = "expr_idle"
    /\ GraphIdle
    /\ ExprIdle
    /\ ExpandIdle
    /\ ExportIdle

\* predicate = build_predicate(expr)
CallBuildPredicate ==
    /\ pc = "expr_idle"
    /\ \E text \in ExprTexts :
        /\ expr' = text
        /\ outcome' = build_predicate(text)
    /\ pc' = "expr_built"
    /\ UNCHANGED <<graphVars, ctx_node, result, argv, main_result, expandVars, exportVars>>

\* ctx = build_context(info.obj, info.obj_id, info.path); predicate(ctx)
CallPredicate ==
    /\ pc = "expr_built"
    /\ outcome.exc = ""
    /\ expr.body \in EvalBodies
    /\ \E obj \in EvalObjects :
        LET info == [obj |-> obj, obj_id |-> "o1",
                     path |-> "/" \o obj.eclass \o "[0]"]
        IN /\ ctx_node' = info
           /\ result' = predicate(outcome.code,
                            build_context(info.obj, info.obj_id, info.path), info.obj)
    /\ pc' = "expr_evaluated"
    /\ UNCHANGED <<graphVars, expr, outcome, argv, main_result, expandVars, exportVars>>

\* The entry points of main that take expression options.
ExportEntries ==
    {"export_json", "export_edges", "export_paths", "export_path_ids",
     "export_mermaid", "export_plantuml", "export_gml", "dump_instances_json"}

RECURSIVE first_raise(_, _)
\* The build_predicate calls of one export, in order: the first that raises.
first_raise(texts, i) ==
    IF i > Len(texts) THEN NoPredicate
    ELSE IF build_predicate(texts[i]).exc # "" THEN build_predicate(texts[i])
    ELSE first_raise(texts, i + 1)

\* _apply_filter on the node list of an instance without roots: the seed
\* expression is compiled first, then the start expression, then the filter.
apply_filter_compile(a) ==
    first_raise(a.neighbors_from \o a.expand_from \o a.filter_expr, 1)

\* main, from the call of one export to its return: the export's
\* try/except ValueError, and around it only except KeyboardInterrupt, so
\* any other exception leaves main (the interpreter then exits with 1).
main_export(a) ==
    IF a.entry \in {"export_paths", "export_path_ids"} /\ a.expand_from = <<>>
    THEN [ret |-> 2, log |-> a.entry \o " requires --expand-from", raised |-> ""]
    ELSE LET r == apply_filter_compile(a) IN
         IF r.exc = "" THEN [ret |-> 0, log |-> "", raised |-> ""]
         ELSE IF "ValueError" \in ExceptionBases(r.exc)
         THEN [ret |-> 2, log |-> "Invalid filter expression", raised |-> ""]
         ELSE [ret |-> 1, log |-> "", raised |-> r.exc]

DefaultExpand == Text(Compare(Name("eclass"), "Eq", Constant("Foo")))

\* The command lines: one export, the text in one of its expression options;
\* export_paths and export_path_ids are also given a start expression.
CommandLines(text) ==
    {[entry |-> e,
      neighbors_from |-> IF opt = "neighbors_from" THEN <<text>> ELSE <<>>,
      expand_from |-> IF opt = "expand_from" THEN <<text>>
                      ELSE IF e \in {"export_paths", "export_path_ids"}
                           THEN <<DefaultExpand>> ELSE <<>>,
      filter_expr |-> IF opt = "filter_expr" THEN <<text>> ELSE <<>>] :
        e \in ExportEntries \ {"dump_instances_json"},
        opt \in {"neighbors_from", "expand_from", "filter_expr"}}
    \cup {[entry |-> "dump_instances_json", neighbors_from |-> <<>>,
           expand_from |-> <<>>, filter_expr |-> <<text>>]}

\* main(argv) with one export requested
MainExport ==
    /\ pc = "expr_idle"
    /\ \E text \in ExprTexts :
        /\ expr' = text
        /\ \E a \in CommandLines(text) :
            /\ argv' = a
            /\ main_result' = main_export(a)
    /\ pc' = "main_done"
    /\ UNCHANGED <<graphVars, outcome, ctx_node, result, expandVars, exportVars>>

ExprNext == CallBuildPredicate \/ CallPredicate \/ MainExport

SpecExpr == ExprInit /\ [][ExprNext]_vars

(***************************************************************************)
(* Reachability expansion: _expand_from.  Its local variables are the      *)
(* record st; st.at = <<i, r, k>> is the position of the three nested      *)
(* loops: frontier[i], reference r, item k of the slot.  expand_depth is   *)
(* <<>> for None and <<d>> for the integer d; expand_classes is a set, {}  *)
(* standing for None and for the empty set (both are false in a test).     *)
(***************************************************************************)
None == <<>>
Depth(d) == <<d>>

\* The object build_context and the closures of its context read.
ObjOf(o) ==
    [eclass |-> cls[o], attrs |-> attributes[o], internal_id |-> internal_id[o]]

\* _node_label(obj)
node_label(o) ==
    LET name == IF "name" \in DOMAIN attributes[o] THEN attributes[o].name
                ELSE NoneV
    IN IF name.t = "str" /\ name.v # "" THEN name.v ELSE ""

\* _id_label(obj, fallback)
id_label(o, fallback) ==
    IF internal_id[o] # "" THEN internal_id[o] ELSE fallback

NodeObjs(nodes) == {nodes[i].obj : i \in 1..Len(nodes)}

\* obj_map = {info.obj: info for info in objects}
ObjMap(nodes) ==
    [o \in NodeObjs(nodes) |->
        nodes[CHOOSE i \in 1..Len(nodes) :
                /\ nodes[i].obj = o
                /\ \A j \in 1..Len(nodes) : nodes[j].obj = o => j <= i]]

\* id_map = {info.obj: info.obj_id for info in objects}
IdMap(nodes) == [o \in NodeObjs(nodes) |-> ObjMap(nodes)[o].obj_id]

RECURSIVE select_nodes(_, _, _, _, _)
\* The loop "for info in objects: ... if predicate(ctx): append(info.obj)" of
\* _neighbor_expand and _expand_from, from node i on: the exception the
\* predicate raises, or the objects selected, in list order.
select_nodes(nodes, i, code, classes, acc) ==
    IF i > Len(nodes) THEN [exc |-> "", objs |-> acc]
    ELSE LET info == nodes[i] IN
         IF classes # {} /\ cls[info.obj] \notin classes
         THEN select_nodes(nodes, i + 1, code, classes, acc)
         ELSE LET value == predicate(code,
                              build_context(ObjOf(info.obj), info.obj_id, info.path),
                              ObjOf(info.obj))
              IN IF IsRaise(value) THEN [exc |-> value.v, objs |-> <<>>]
                 ELSE IF value.v = "True"
                      THEN select_nodes(nodes, i + 1, code, classes,
                                        Append(acc, info.obj))
                      ELSE select_nodes(nodes, i + 1, code, classes, acc)

\* A mutant: the early return reports one level.
OneLevelExpandMetrics ==
    [start_nodes |-> 0, nodes_seen |-> 0, edges_traversed |-> 0,
     loops_detected |-> 0, max_depth |-> 1]

\* The metrics of the early return of _expand_from, lines 434-440
ZeroExpandMetrics ==
    [start_nodes |-> 0, nodes_seen |-> 0, edges_traversed |-> 0,
     loops_detected |-> 0, max_depth |-> 0]

\* The locals of _expand_from before the while loop, lines 433-455, from
\* what lines 422-431 produced: built is the result of build_predicate and
\* sel the outcome of the selection of the start nodes.  st.exc is the
\* exception raised, and st.returned is set by the early return on an empty
\* start list.
expand_begin(built, sel, id_map) ==
    LET blank == [exc |-> "", returned |-> FALSE, start |-> <<>>, seen |-> {},
                  frontier |-> <<>>, next_frontier |-> <<>>,
                  path_map |-> <<>>, id_path_map |-> <<>>,
                  depth |-> 0, edges_traversed |-> 0, loops_detected |-> 0,
                  at |-> <<1, 1, 1>>]
    IN IF built.exc # "" THEN [blank EXCEPT !.exc = built.exc]
       ELSE IF sel.exc # "" THEN [blank EXCEPT !.exc = sel.exc]
       ELSE IF sel.objs = <<>> THEN [blank EXCEPT !.returned = TRUE]
       ELSE [blank EXCEPT
                !.start = sel.objs,
                !.seen = Range(sel.objs),
                !.frontier = sel.objs,
                !.path_map = [o \in Range(sel.objs) |-> "/" \o node_label(o)],
                !.id_path_map = [o \in Range(sel.objs) \cap DOMAIN id_map |->
                                    "/" \o id_label(o, id_map[o])]]

\* The start nodes of _expand_from, lines 425-431; none when the expression
\* did not compile.
expand_select(nodes, built, classes) ==
    IF built.exc # "" THEN [exc |-> "", objs |-> <<>>]
    ELSE select_nodes(nodes, 1, built.code, classes, <<>>)

\* _expand_from up to the while loop, lines 422-455.
expand_start(nodes, p) ==
    expand_begin(build_predicate(p.expand_expr),
                 expand_select(nodes, build_predicate(p.expand_expr), p.expand_classes),
                 IdMap(nodes))

\* A mutant: a depth of None stands for the depth 1.
expand_loop_cond_none_single(st, expand_depth) ==
    /\ st.frontier # <<>>
    /\ IF expand_depth = None THEN st.depth < 1
       ELSE IF expand_depth[1] < 0 THEN TRUE
       ELSE st.depth < expand_depth[1]

\* A mutant: one hop more than the depth asked for.
expand_loop_cond_one_more(st, expand_depth) ==
    /\ st.frontier # <<>>
    /\ IF expand_depth = None THEN TRUE
       ELSE IF expand_depth[1] < 0 THEN TRUE
       ELSE st.depth <= expand_depth[1]

\* while frontier and (expand_depth is None or expand_depth < 0
\*                     or depth < expand_depth)
expand_loop_cond(st, expand_depth) ==
    /\ st.frontier # <<>>
    /\ IF expand_depth = None THEN TRUE
       ELSE IF expand_depth[1] < 0 THEN TRUE
       ELSE st.depth < expand_depth[1]

LexLeq(a, b) ==
    \/ a[1] < b[1]
    \/ a[1] = b[1] /\ a[2] < b[2]
    \/ a[1] = b[1] /\ a[2] = b[2] /\ a[3] <= b[3]

\* The items the nested for loops have still to take, from st.at on.
expand_pending(st) ==
    {pos \in UNION {{<<i, r, k>> :
                        k \in 1..Len(slots[st.frontier[i]][AllReferences[r]])} :
                            i \in 1..Len(st.frontier), r \in RefIdx} :
        LexLeq(st.at, pos)}

expand_next_pos(st) ==
    CHOOSE pos \in expand_pending(st) : \A q \in expand_pending(st) : LexLeq(pos, q)

\* A mutant: a target is taken into the next frontier whether seen or not.
expand_reach_again(st, obj, target, id_map) ==
    IF target \notin DOMAIN id_map THEN [st EXCEPT !.exc = "KeyError"]
    ELSE [st EXCEPT
            !.seen = @ \cup {target},
            !.next_frontier = Append(@, target),
            !.path_map = (target :> (st.path_map[obj] \o "/" \o node_label(target))) @@ @,
            !.id_path_map =
                (target :> ((IF obj \in DOMAIN st.id_path_map
                             THEN st.id_path_map[obj] ELSE "")
                            \o "/" \o id_label(target, id_map[target]))) @@ @]

\* A mutant: a seen target takes the paths of its latest discoverer.
expand_reach_last_path(st, obj, target, id_map) ==
    IF target \notin DOMAIN id_map THEN [st EXCEPT !.exc = "KeyError"]
    ELSE [st EXCEPT
            !.loops_detected = IF target \in st.seen THEN @ + 1 ELSE @,
            !.seen = @ \cup {target},
            !.next_frontier = IF target \in st.seen THEN @ ELSE Append(@, target),
            !.path_map = (target :> (st.path_map[obj] \o "/" \o node_label(target))) @@ @,
            !.id_path_map =
                (target :> ((IF obj \in DOMAIN st.id_path_map
                             THEN st.id_path_map[obj] ELSE "")
                            \o "/" \o id_label(target, id_map[target]))) @@ @]

\* "if target not in seen: ... else: loops_detected += 1".  id_map[target]
\* raises KeyError for a target that is not in the node list.
expand_reach(st, obj, target, id_map) ==
    IF target \in st.seen THEN [st EXCEPT !.loops_detected = @ + 1]
    ELSE IF target \notin DOMAIN id_map THEN [st EXCEPT !.exc = "KeyError"]
    ELSE [st EXCEPT
            !.seen = @ \cup {target},
            !.next_frontier = Append(@, target),
            !.path_map = (target :> (st.path_map[obj] \o "/" \o node_label(target))) @@ @,
            !.id_path_map =
                (target :> ((IF obj \in DOMAIN st.id_path_map
                             THEN st.id_path_map[obj] ELSE "")
                            \o "/" \o id_label(target, id_map[target]))) @@ @]

\* A mutant: the scalar branch counts the edge after it has added the
\* target, and not when the target was seen.
expand_edge_at_late_count(st, pos, id_map, classes) ==
    LET obj == st.frontier[pos[1]]
        ref == AllReferences[pos[2]]
        target == slots[obj][ref][pos[3]]
        refused == classes # {} /\ cls[target] \notin classes
        here == [st EXCEPT !.at = <<pos[1], pos[2], pos[3] + 1>>]
        counted == [st EXCEPT !.at = <<pos[1], pos[2], pos[3] + 1>>,
                              !.edges_traversed = @ + 1]
    IN IF Refs[ref].many
       THEN IF refused THEN counted ELSE expand_reach(counted, obj, target, id_map)
       ELSE IF refused THEN here
            ELSE IF target \in st.seen THEN expand_reach(here, obj, target, id_map)
            ELSE expand_reach(counted, obj, target, id_map)

\* A mutant: the class of the target is not tested.
expand_edge_at_any_class(st, pos, id_map, classes) ==
    LET obj == st.frontier[pos[1]]
        ref == AllReferences[pos[2]]
        target == slots[obj][ref][pos[3]]
        counted == [st EXCEPT !.at = <<pos[1], pos[2], pos[3] + 1>>,
                              !.edges_traversed = @ + 1]
    IN expand_reach(counted, obj, target, id_map)

\* The body of the loops for the target at position pos: the many branch
\* counts the edge and then tests the class, the scalar branch tests the
\* class first.
expand_edge_at(st, pos, id_map, classes) ==
    LET obj == st.frontier[pos[1]]
        ref == AllReferences[pos[2]]
        target == slots[obj][ref][pos[3]]
        refused == classes # {} /\ cls[target] \notin classes
        here == [st EXCEPT !.at = <<pos[1], pos[2], pos[3] + 1>>]
        counted == [st EXCEPT !.at = <<pos[1], pos[2], pos[3] + 1>>,
                              !.edges_traversed = @ + 1]
    IN IF Refs[ref].many
       THEN IF refused THEN counted ELSE expand_reach(counted, obj, target, id_map)
       ELSE IF refused THEN here ELSE expand_reach(counted, obj, target, id_map)

\* One turn of the innermost loop body, on the next target.
expand_edge(st, id_map, classes) ==
    expand_edge_at(st, expand_next_pos(st), id_map, classes)

\* A mutant: the loop does not move on to the next frontier.
expand_level_end_stuck(st) == st

\* frontier = next_frontier; depth += 1
expand_level_end(st) ==
    [st EXCEPT !.frontier = st.next_frontier,
               !.next_frontier = <<>>,
               !.depth = @ + 1,
               !.at = <<1, 1, 1>>]

\* The return statements of _expand_from.  The returned list is built by
\* iterating the set seen, whose order Python leaves open: nodes is the set
\* of its members.
expand_return(st, nodes) ==
    IF st.returned
    THEN [exc |-> "", nodes |-> {}, metrics |-> ZeroExpandMetrics,
          path_map |-> <<>>, id_path_map |-> <<>>]
    ELSE [exc |-> "",
          nodes |-> {ObjMap(nodes)[o] : o \in st.seen \cap NodeObjs(nodes)},
          metrics |-> [start_nodes |-> Len(st.start),
                       nodes_seen |-> Cardinality(st.seen),
                       edges_traversed |-> st.edges_traversed,
                       loops_detected |-> st.loops_detected,
                       max_depth |-> st.depth],
          path_map |-> st.path_map,
          id_path_map |-> st.id_path_map]

RECURSIVE expand_loop(_, _, _)
\* The while loop of _expand_from, run until it ends or raises.
expand_loop(st, id_map, p) ==
    IF st.exc # "" \/ st.returned \/ ~expand_loop_cond(st, p.expand_depth) THEN st
    ELSE IF expand_pending(st) = {} THEN expand_loop(expand_level_end(st), id_map, p)
    ELSE expand_loop(expand_edge(st, id_map, p.expand_classes), id_map, p)

\* _expand_from(objects, expand_expr, expand_depth, expand_classes)
expand_from(nodes, p) ==
    LET st == expand_loop(expand_start(nodes, p), IdMap(nodes), p) IN
    IF st.exc # "" THEN [exc |-> st.exc] ELSE expand_return(st, nodes)

(***************************************************************************)
(* The instances of the expansion: objects 1..NExp, object 1 the only      *)
(* root.  Containment is a chain of child slots, or object 1 holding all   *)
(* but the last object in children (the last object is then outside the    *)
(* node list); on top of it come no, one or two non-containment            *)
(* references, between any two objects.                                    *)
(***************************************************************************)
NExp == 4

ExpObjects == 1..NExp

ChainSkeleton ==
    [o \in ExpObjects |->
        [r \in RefIdx |-> IF r = 2 /\ o < NExp THEN <<o + 1>> ELSE <<>>]]

StarSkeleton ==
    [o \in ExpObjects |->
        [r \in RefIdx |-> IF r = 1 /\ o = 1 THEN [i \in 1..(NExp - 2) |-> i + 1]
                          ELSE <<>>]]

CrossRefs == {<<s, r, t>> : s \in ExpObjects, r \in {3, 4}, t \in ExpObjects}

\* No, one or two cross references; a scalar slot takes one.
CrossSets ==
    {{}} \cup {X \in {{a, b} : a, b \in CrossRefs} :
                \A x, y \in X : (x[1] = y[1] /\ x[2] = 4 /\ y[2] = 4) => x = y}

RECURSIVE AscSeq(_)
AscSeq(S) ==
    IF S = {} THEN <<>>
    ELSE LET least == CHOOSE x \in S : \A y \in S : x <= y
         IN <<least>> \o AscSeq(S \ {least})

WithCrossRefs(skeleton, X) ==
    [o \in ExpObjects |->
        [r \in RefIdx |-> IF Refs[r].containment THEN skeleton[o][r]
                          ELSE AscSeq({t \in ExpObjects : <<o, r, t>> \in X})]]

ExpandInstances ==
    {WithCrossRefs(sk, X) : sk \in {ChainSkeleton, StarSkeleton}, X \in CrossSets}

\* Object 1 is a Foo, object 2 a Bar (a subclass of Foo), the others Baz.
ExpandClasses ==
    [o \in ExpObjects |-> IF o = 1 THEN "Foo" ELSE IF o = 2 THEN "Bar" ELSE "Baz"]

\* Every object but the third carries a name; the second also carries a
\* persisted identifier.
ExpandAttributes ==
    [o \in ExpObjects |-> IF o = 3 THEN [name |-> NoneV]
                          ELSE [name |-> StrV("n" \o Str(o))]]

ExpandInternalIds == [o \in ExpObjects |-> IF o = 2 THEN "_x2" ELSE ""]

\* Start expressions: eclass == 'Foo', is_kind_of('Foo'), eclass == 'Bar'
\* and is_class('Qux'), which selects nothing.
StartTexts ==
    {Text(Compare(Name("eclass"), "Eq", Constant("Foo"))),
     Text(Call(Name("is_kind_of"), <<Constant("Foo")>>, <<>>)),
     Text(Compare(Name("eclass"), "Eq", Constant("Bar"))),
     Text(Call(Name("is_class"), <<Constant("Qux")>>, <<>>))}

ExpandDepths == {None, Depth(-1), Depth(0), Depth(1), Depth(2), Depth(3)}

ExpandCalls ==
    {[expand_expr |-> text, expand_depth |-> d, expand_classes |-> {}] :
        text \in StartTexts, d \in ExpandDepths}

\* The instances with at most one cross reference, and the calls with
\* depth -1.
SparseInstances ==
    {WithCrossRefs(sk, X) : sk \in {ChainSkeleton, StarSkeleton},
                            X \in {Y \in CrossSets : Cardinality(Y) <= 1}}

UnboundedCalls == {c \in ExpandCalls : c.expand_depth = Depth(-1)}

\* The node list is the one build_object_graph returns for the instance.
ExpandInitOn(instances, calls) ==
    /\ pc = "expand_call"
    /\ cls = ExpandClasses
    /\ slots \in instances
    /\ attributes = ExpandAttributes
    /\ internal_id = ExpandInternalIds
    /\ roots = <<1>>
    /\ \E g \in {build_object_graph(roots, cls, slots)} :
        /\ objects = g.objects
        /\ edges = g.edges
    /\ params \in calls
    /\ ex = NoExpand
    /\ af = NoLocals
    /\ ret = NoReturn
    /\ ExprIdle
    /\ ExportIdle

ExpandInit == ExpandInitOn(ExpandInstances, ExpandCalls)

UnboundedInit == ExpandInitOn(SparseInstances, UnboundedCalls)

\* _expand_from, lines 422-455
ExpandStart ==
    /\ pc = "expand_call"
    /\ \E built \in {build_predicate(params.expand_expr)} :
       \E sel \in {expand_select(objects, built, params.expand_classes)} :
       \E id_map \in {IdMap(objects)} :
       \E st \in {expand_begin(built, sel, id_map)} :
        /\ ex' = st
        /\ pc' = IF st.exc # "" THEN "expand_raised" ELSE "expand_loop"
        /\ ret' = IF st.exc # "" THEN [exc |-> st.exc] ELSE ret
    /\ UNCHANGED <<graphVars, exprVars, params, af, exportVars>>

\* One turn of the innermost loop bodies, lines 468-482 or 484-498
ExpandEdge ==
    /\ pc = "expand_loop"
    /\ ~ex.returned
    /\ expand_loop_cond(ex, params.expand_depth)
    /\ \E pending \in {expand_pending(ex)} :
        /\ pending # {}
        /\ \E pos \in {q \in pending : \A q2 \in pending : LexLeq(q, q2)} :
           \E id_map \in {IdMap(objects)} :
           \E st \in {expand_edge_at(ex, pos, id_map, params.expand_classes)} :
            /\ ex' = st
            /\ pc' = IF st.exc # "" THEN "expand_raised" ELSE "expand_loop"
            /\ ret' = IF st.exc # "" THEN [exc |-> st.exc] ELSE ret
    /\ UNCHANGED <<graphVars, exprVars, params, af, exportVars>>

\* The end of one turn of the while loop, lines 499-500
ExpandLevelEnd ==
    /\ pc = "expand_loop"
    /\ ~ex.returned
    /\ expand_loop_cond(ex, params.expand_depth)
    /\ expand_pending(ex) = {}
    /\ ex' = expand_level_end(ex)
    /\ UNCHANGED <<pc, graphVars, exprVars, params, af, ret, exportVars>>

\* The return statements, lines 433-445 and 502-513
ExpandReturn ==
    /\ pc = "expand_loop"
    /\ IF ex.returned THEN TRUE ELSE ~expand_loop_cond(ex, params.expand_depth)
    /\ ret' = expand_return(ex, objects)
    /\ pc' = "expand_done"
    /\ UNCHANGED <<graphVars, exprVars, params, ex, af, exportVars>>

ExpandNext == ExpandStart \/ ExpandEdge \/ ExpandLevelEnd \/ ExpandReturn

SpecExpand == ExpandInit /\ [][ExpandNext]_vars

\* The calls with allowed classes, on the instances with at most one cross
\* reference.
ClassCalls ==
    {[expand_expr |-> text, expand_depth |-> d, expand_classes |-> cs] :
        text \in StartTexts, d \in {Depth(-1), Depth(1), Depth(2)},
        cs \in {{"Foo", "Bar"}, {"Foo", "Baz"}}}

ClassInit == ExpandInitOn(SparseInstances, ClassCalls)

SpecExpandClasses == ClassInit /\ [][ExpandNext]_vars

\* The calls with and without allowed classes.
MetricsInit == ExpandInitOn(SparseInstances, ClassCalls \cup ExpandCalls)

SpecExpandMetrics == MetricsInit /\ [][ExpandNext]_vars

\* The calls with depth -1 under a fair interpreter: it keeps running the
\* call, no step of which waits on anything.
FairSpecExpand == UnboundedInit /\ [][ExpandNext]_vars /\ WF_vars(ExpandNext)

(***************************************************************************)
(* Neighbourhood expansion: _neighbor_expand.                              *)
(***************************************************************************)
\* refs, lines 390-394: the references, then the containment references
\* once more.
neighbor_refs == AllReferences \o ContainmentFeatures

RECURSIVE neighbor_targets(_, _, _)
\* The targets the loops of lines 389-397 take, in order, from reference k
\* of frontier[i] on.
neighbor_targets(frontier, i, k) ==
    IF i > Len(frontier) THEN <<>>
    ELSE IF k > Len(neighbor_refs) THEN neighbor_targets(frontier, i + 1, 1)
    ELSE slots[frontier[i]][neighbor_refs[k]] \o neighbor_targets(frontier, i, k + 1)

RECURSIVE neighbor_visit(_, _, _)
\* Lines 398-401 for the targets from the i-th on.
neighbor_visit(st, targets, i) ==
    IF i > Len(targets) THEN st
    ELSE LET counted == [st EXCEPT !.edges_traversed = @ + 1] IN
         IF targets[i] \in st.seen THEN neighbor_visit(counted, targets, i + 1)
         ELSE neighbor_visit([counted EXCEPT !.seen = @ \cup {targets[i]},
                                             !.next_frontier = Append(@, targets[i])],
                             targets, i + 1)

\* A mutant of the loop test: a negative hop count is no bound.
neighbor_loop_cond_unbounded(st, hops) ==
    st.frontier # <<>> /\ (hops < 0 \/ st.depth < hops)

\* A mutant of the loop test: one more hop than asked for.
neighbor_loop_cond_one_more(st, hops) ==
    st.frontier # <<>> /\ st.depth <= hops

\* while frontier and depth < hops
neighbor_loop_cond(st, hops) ==
    st.frontier # <<>> /\ st.depth < hops

RECURSIVE neighbor_loop(_, _)
\* The loop of lines 386-403
neighbor_loop(st, hops) ==
    IF neighbor_loop_cond(st, hops)
    THEN LET visited == neighbor_visit([st EXCEPT !.next_frontier = <<>>],
                                       neighbor_targets(st.frontier, 1, 1), 1)
         IN neighbor_loop([visited EXCEPT !.frontier = visited.next_frontier,
                                          !.depth = @ + 1], hops)
    ELSE st

\* _neighbor_expand(objects, seed_expr, hops): the exception raised, or the
\* returned nodes (a list in the iteration order of the set seen, kept as
\* the set of its members) and metrics.
neighbor_expand(nodes, seed_expr, hops) ==
    LET built == build_predicate(seed_expr)
        sel == expand_select(nodes, built, {})
        seeds == sel.objs
        st == neighbor_loop([seen |-> Range(seeds), frontier |-> seeds,
                             next_frontier |-> <<>>, edges_traversed |-> 0,
                             depth |-> 0], hops)
    IN IF built.exc # "" THEN [exc |-> built.exc]
       ELSE IF sel.exc # "" THEN [exc |-> sel.exc]
       ELSE IF seeds = <<>>
       THEN [exc |-> "", nodes |-> {},
             metrics |-> [seed_nodes |-> 0, nodes_seen |-> 0,
                          edges_traversed |-> 0, max_hops |-> 0]]
       ELSE [exc |-> "",
             nodes |-> {ObjMap(nodes)[o] : o \in st.seen \cap NodeObjs(nodes)},
             metrics |-> [seed_nodes |-> Len(seeds),
                          nodes_seen |-> Cardinality(st.seen),
                          edges_traversed |-> st.edges_traversed,
                          max_hops |-> st.depth]]

(***************************************************************************)
(* _apply_filter.  An optional argument is <<>> for None and <<x>> for x.  *)
(* A node list is [ordered, items]: a list built by iterating a Python set *)
(* has the order of that iteration, which the language leaves open; it is  *)
(* kept with ordered = FALSE, its items by ascending object, and whoever   *)
(* iterates it takes the items in any order.                               *)
(***************************************************************************)
ListOf(seq) == [ordered |-> TRUE, items |-> seq]

RECURSIVE ByObject(_)
ByObject(S) ==
    IF S = {} THEN <<>>
    ELSE LET least == CHOOSE x \in S : \A y \in S : x.obj <= y.obj
         IN <<least>> \o ByObject(S \ {least})

ListOfSet(S) == [ordered |-> Cardinality(S) <= 1, items |-> ByObject(S)]

\* The orders in which the items of a node list may be taken.
Orders(list) ==
    IF list.ordered THEN {list.items}
    ELSE {s \in DistinctSeqs(Range(list.items), Len(list.items)) :
            Len(s) = Len(list.items)}

RECURSIVE filter_nodes_skip(_, _, _, _)
\* A mutant: a node on which the predicate raises is left out.
filter_nodes_skip(nodes, i, code, acc) ==
    IF i > Len(nodes) THEN [exc |-> "", items |-> acc]
    ELSE LET info == nodes[i]
             value == predicate(code,
                          build_context(ObjOf(info.obj), info.obj_id, info.path),
                          ObjOf(info.obj))
         IN IF ~IsRaise(value) /\ value.v = "True"
            THEN filter_nodes_skip(nodes, i + 1, code, Append(acc, info))
            ELSE filter_nodes_skip(nodes, i + 1, code, acc)

RECURSIVE filter_nodes(_, _, _, _)
\* Lines 556-559 from node i on: the exception raised, or result.
filter_nodes(nodes, i, code, acc) ==
    IF i > Len(nodes) THEN [exc |-> "", items |-> acc]
    ELSE LET info == nodes[i]
             value == predicate(code,
                          build_context(ObjOf(info.obj), info.obj_id, info.path),
                          ObjOf(info.obj))
         IN IF IsRaise(value) THEN [exc |-> value.v, items |-> <<>>]
            ELSE IF value.v = "True"
                 THEN filter_nodes(nodes, i + 1, code, Append(acc, info))
                 ELSE filter_nodes(nodes, i + 1, code, acc)

\* A mutant: the path maps are returned as _expand_from built them.
restrict_map_whole(map, kept) == map

\* {info.obj: map[info.obj] for info in result if info.obj in map}
restrict_map(map, kept) ==
    [o \in NodeObjs(kept) \cap DOMAIN map |-> map[o]]

\* Lines 549-552 and 566-569: {**metrics, **neighbor_metrics}
merge_metrics(metrics, neighbor_metrics) ==
    IF neighbor_metrics # None /\ metrics # None
    THEN <<neighbor_metrics[1] @@ metrics[1]>>
    ELSE IF neighbor_metrics # None THEN neighbor_metrics
    ELSE metrics

\* Seed expressions: eclass == 'Bar' and is_kind_of('Foo').
SeedTexts ==
    {Text(Compare(Name("eclass"), "Eq", Constant("Bar"))),
     Text(Call(Name("is_kind_of"), <<Constant("Foo")>>, <<>>)),
     Text(Call(Name("is_class"), <<Constant("Qux")>>, <<>>))}

\* Filter expressions: eclass != 'Foo', and foo == 'Foo', which names
\* nothing the context holds.
FilterTexts ==
    {Text(Compare(Name("eclass"), "NotEq", Constant("Foo"))),
     Text(Compare(Name("foo"), "Eq", Constant("Foo")))}

FilterCalls ==
    {[filter_expr |-> f, expand_expr |-> e, expand_depth |-> d,
      expand_classes |-> {}, neighbor_expr |-> n, neighbor_hops |-> h] :
        f \in {None} \cup {<<t>> : t \in FilterTexts},
        e \in {None} \cup {<<t>> : t \in StartTexts},
        d \in {None, Depth(-1), Depth(1)},
        n \in {None} \cup {<<t>> : t \in SeedTexts},
        h \in {None, Depth(-1), Depth(0), Depth(1), Depth(2)}}

\* The calls: a depth comes with a start expression (None without one), and
\* a hop count with a seed expression; a seed expression may come without a
\* hop count.
FilterInit ==
    /\ pc = "filter_call"
    /\ cls = ExpandClasses
    /\ slots \in SparseInstances
    /\ attributes = ExpandAttributes
    /\ internal_id = ExpandInternalIds
    /\ roots = <<1>>
    /\ \E g \in {build_object_graph(roots, cls, slots)} :
        /\ objects = g.objects
        /\ edges = g.edges
    /\ params \in {c \in FilterCalls :
                    /\ c.expand_expr = None <=> c.expand_depth = None
                    /\ c.neighbor_expr = None => c.neighbor_hops = None}
    /\ ex = NoExpand
    /\ af = NoLocals
    /\ ret = NoReturn
    /\ ExprIdle
    /\ ExportIdle

\* _apply_filter, lines 530-538
NeighborStage ==
    /\ pc = "filter_call"
    /\ IF params.neighbor_expr # None /\ params.neighbor_hops # None
       THEN \E r \in {neighbor_expand(objects, params.neighbor_expr[1],
                                      params.neighbor_hops[1])} :
                IF r.exc # ""
                THEN /\ pc' = "filter_raised"
                     /\ ret' = [exc |-> r.exc]
                     /\ af' = af
                ELSE /\ pc' = "filter_expand"
                     /\ ret' = ret
                     /\ af' = [objects |-> ListOfSet(r.nodes),
                               neighbor_metrics |-> <<r.metrics>>]
       ELSE /\ pc' = "filter_expand"
            /\ ret' = ret
            /\ af' = [objects |-> ListOf(objects), neighbor_metrics |-> None]
    /\ UNCHANGED <<graphVars, exprVars, params, ex, exportVars>>

\* _apply_filter, lines 539-547
ExpandStage ==
    /\ pc = "filter_expand"
    /\ IF params.expand_expr # None
       THEN \E order \in Orders(af.objects) :
            \E r \in {expand_from(order,
                        [expand_expr |-> params.expand_expr[1],
                         expand_depth |-> params.expand_depth,
                         expand_classes |-> params.expand_classes])} :
                IF r.exc # ""
                THEN /\ pc' = "filter_raised"
                     /\ ret' = [exc |-> r.exc]
                     /\ af' = af
                ELSE /\ pc' = "filter_filter"
                     /\ ret' = ret
                     /\ af' = [objects |-> af.objects,
                               neighbor_metrics |-> af.neighbor_metrics,
                               filtered |-> ListOfSet(r.nodes),
                               metrics |-> <<r.metrics>>,
                               path_map |-> <<r.path_map>>,
                               id_path_map |-> <<r.id_path_map>>]
       ELSE /\ pc' = "filter_filter"
            /\ ret' = ret
            /\ af' = [objects |-> af.objects,
                      neighbor_metrics |-> af.neighbor_metrics,
                      filtered |-> af.objects,
                      metrics |-> None,
                      path_map |-> None,
                      id_path_map |-> None]
    /\ UNCHANGED <<graphVars, exprVars, params, ex, exportVars>>

\* _apply_filter, lines 548-570
FilterStage ==
    /\ pc = "filter_filter"
    /\ IF params.filter_expr = None
       THEN /\ pc' = "filter_done"
            /\ ret' = [exc |-> "",
                       nodes |-> af.filtered,
                       metrics |-> merge_metrics(af.metrics, af.neighbor_metrics),
                       path_map |-> af.path_map,
                       id_path_map |-> af.id_path_map]
       ELSE \E built \in {build_predicate(params.filter_expr[1])} :
            IF built.exc # ""
            THEN /\ pc' = "filter_raised"
                 /\ ret' = [exc |-> built.exc]
            ELSE \E r \in {filter_nodes(af.filtered.items, 1, built.code, <<>>)} :
                 IF r.exc # ""
                 THEN /\ pc' = "filter_raised"
                      /\ ret' = [exc |-> r.exc]
                 ELSE /\ pc' = "filter_done"
                      /\ ret' = [exc |-> "",
                                 nodes |-> [ordered |-> af.filtered.ordered
                                                        \/ Len(r.items) <= 1,
                                            items |-> r.items],
                                 metrics |-> merge_metrics(af.metrics,
                                                           af.neighbor_metrics),
                                 path_map |->
                                    IF af.path_map = None THEN None
                                    ELSE <<restrict_map(af.path_map[1], r.items)>>,
                                 id_path_map |->
                                    IF af.id_path_map = None THEN None
                                    ELSE <<restrict_map(af.id_path_map[1], r.items)>>]
    /\ UNCHANGED <<graphVars, exprVars, params, ex, af, exportVars>>

FilterNext == NeighborStage \/ ExpandStage \/ FilterStage

SpecFilter == FilterInit /\ [][FilterNext]_vars

(***************************************************************************)
(* The export functions that take expressions.  Each builds the object     *)
(* graph, runs _apply_filter, and opens its output file for writing.  The  *)
(* output file is [exists, holds, content]: holds names whose content the   *)
(* file has, "old" for what was there before the call.  The content is     *)
(* modelled in full for export_edges (its rows) and as the list of lines   *)
(* or node ids otherwise.                                                  *)
(***************************************************************************)
\* The export functions whose signature has the expand options, and those
\* that pass expand_expr = None.
ExpandingExports == {"export_json", "export_edges", "export_paths", "export_path_ids"}
DiagramExports == {"export_mermaid", "export_plantuml", "export_gml"}

\* export_paths and export_path_ids open the file before they compute.
PathExports == {"export_paths", "export_path_ids"}

\* id_map = {info.obj: _preferred_id(info.obj, info.obj_id) for info in objects}
preferred_ids(nodes) ==
    [o \in NodeObjs(nodes) |-> id_label(o, ObjMap(nodes)[o].obj_id)]

\* local_to_preferred = {info.obj_id: id_map[info.obj] for info in objects}
local_to_preferred(nodes) ==
    [local \in {nodes[i].obj_id : i \in 1..Len(nodes)} |->
        LET last == CHOOSE i \in 1..Len(nodes) :
                        /\ nodes[i].obj_id = local
                        /\ \A j \in 1..Len(nodes) : nodes[j].obj_id = local => j <= i
        IN preferred_ids(nodes)[nodes[last].obj]]

\* export_edges, lines 668-678: the containment edges with both ends in
\* local_to_preferred, their ids replaced by the preferred ids.
remap_edges(containment_edges, l2p) ==
    LET Known(edge) == edge.src_id \in DOMAIN l2p /\ edge.dst_id \in DOMAIN l2p
        kept == SelectSeq(containment_edges, Known)
    IN [i \in 1..Len(kept) |->
            [kept[i] EXCEPT !.src_id = l2p[kept[i].src_id],
                            !.dst_id = l2p[kept[i].dst_id]]]

RECURSIVE reference_edges(_, _, _, _, _)
\* export_edges, lines 680-699, from item k of reference r of nodes[i] on.
reference_edges(nodes, id_map, i, r, k) ==
    IF i > Len(nodes) THEN <<>>
    ELSE IF r > Len(AllReferences) THEN reference_edges(nodes, id_map, i + 1, 1, 1)
    ELSE LET info == nodes[i]
             ref == AllReferences[r]
             value == slots[info.obj][ref]
         IN IF Refs[ref].containment \/ k > Len(value)
            THEN reference_edges(nodes, id_map, i, r + 1, 1)
            ELSE IF value[k] \notin DOMAIN id_map
            THEN reference_edges(nodes, id_map, i, r, k + 1)
            ELSE <<[src_id |-> info.obj_id,
                    src_class |-> cls[info.obj],
                    feature |-> Refs[ref].name,
                    dst_id |-> id_map[value[k]],
                    dst_class |-> cls[value[k]],
                    containment |-> FALSE]>>
                 \o reference_edges(nodes, id_map, i, r, k + 1)

\* export_edges, lines 701-702
edges_in_id_set(rows, id_map) ==
    LET id_set == {id_map[o] : o \in DOMAIN id_map}
        Both(edge) == edge.src_id \in id_set /\ edge.dst_id \in id_set
    IN SelectSeq(rows, Both)

\* export_edges, lines 666-702: the rows it writes and returns.
export_edges_rows(nodes, containment_edges) ==
    LET id_map == preferred_ids(nodes)
    IN edges_in_id_set(remap_edges(containment_edges, local_to_preferred(nodes))
                       \o reference_edges(nodes, id_map, 1, 1, 1),
                       id_map)

RECURSIVE Distinct(_)
\* A sequence without its repeated members.
Distinct(seq) ==
    IF seq = <<>> THEN <<>>
    ELSE LET front == Distinct(SubSeq(seq, 1, Len(seq) - 1))
         IN IF seq[Len(seq)] \in Range(front) THEN front
            ELSE Append(front, seq[Len(seq)])

\* The lines export_paths and export_path_ids write, 738-743 and 768-777:
\* sorted(set(...)) of the paths of the returned nodes.  The sorted order is
\* not modelled: the lines are kept as an unordered list.
export_path_lines(nodes, map) ==
    IF map = None THEN ListOf(<<>>)
    ELSE LET Has(info) == info.obj \in DOMAIN map[1]
             with == SelectSeq(nodes, Has)
             lines == Distinct([i \in 1..Len(with) |-> map[1][with[i].obj]])
         IN [ordered |-> Len(lines) <= 1, items |-> lines]

\* What an export writes, from the result of _apply_filter: the rows of
\* export_edges, the lines of export_paths and export_path_ids, and for the
\* other exports the preferred id of every returned node, one per entry.
export_content(entry, r, containment_edges) ==
    CASE entry = "export_edges" ->
            [ordered |-> r.nodes.ordered,
             items |-> export_edges_rows(r.nodes.items, containment_edges)]
      [] entry = "export_paths" -> export_path_lines(r.nodes.items, r.path_map)
      [] entry = "export_path_ids" -> export_path_lines(r.nodes.items, r.id_path_map)
      [] OTHER ->
            [ordered |-> r.nodes.ordered,
             items |-> [i \in 1..Len(r.nodes.items) |->
                            preferred_ids(r.nodes.items)[r.nodes.items[i].obj]]]

\* An expression build_predicate refuses: eclass.name
BadText == Text(Attribute(Name("eclass"), "name"))

GoodFilter == Text(Compare(Name("eclass"), "NotEq", Constant("Foo")))
GoodStart == Text(Compare(Name("eclass"), "Eq", Constant("Foo")))
GoodSeed == Text(Call(Name("is_kind_of"), <<Constant("Foo")>>, <<>>))

\* The calls of one export: each expression absent, good, or refused.
ExportCalls(entry) ==
    {[filter_expr |-> f, expand_expr |-> e,
      expand_depth |-> IF e = None THEN None ELSE Depth(1),
      expand_classes |-> {},
      neighbor_expr |-> n,
      neighbor_hops |-> IF n = None THEN None ELSE Depth(1)] :
        f \in {None, <<GoodFilter>>, <<BadText>>},
        e \in IF entry \in DiagramExports THEN {None}
              ELSE {None, <<GoodStart>>, <<BadText>>},
        n \in {None, <<GoodSeed>>, <<BadText>>}}

ExportInit ==
    /\ pc = "export_call"
    /\ cls = ExpandClasses
    /\ slots \in SparseInstances
    /\ attributes = ExpandAttributes
    /\ internal_id = ExpandInternalIds
    /\ roots = <<1>>
    /\ objects = <<>>
    /\ edges = <<>>
    /\ file \in {NoFile, OldFile}
    /\ \E entry \in ExpandingExports \cup DiagramExports :
        /\ export = [entry |-> entry, before |-> file, content |-> ListOf(<<>>)]
        /\ params \in ExportCalls(entry)
    /\ ex = NoExpand
    /\ af = NoLocals
    /\ ret = NoReturn
    /\ ExprIdle

\* objects, edges = build_object_graph(roots), the first statement of every
\* export; _apply_filter is called next.
ExportBuild ==
    /\ pc = "export_call"
    /\ \E g \in {build_object_graph(roots, cls, slots)} :
        /\ objects' = g.objects
        /\ edges' = g.edges
    /\ pc' = "filter_call"
    /\ UNCHANGED <<cls, slots, attributes, internal_id, roots, exprVars, expandVars,
                   exportVars>>

\* A mutant: the file is opened before _apply_filter is called.
export_open_at_start(entry) == "filter_call"

\* Where the with open(...) statement of an export stands: right after
\* _apply_filter in export_paths and export_path_ids, after the output has
\* been computed in the others.
export_open_at(entry) ==
    IF entry \in PathExports THEN "filter_done" ELSE "export_ready"

\* The statements between _apply_filter and open, as in export_edges 666-702
ExportPrepare ==
    /\ pc = "filter_done"
    /\ export.entry # "" /\ export_open_at(export.entry) = "export_ready"
    /\ export' = [export EXCEPT !.content = export_content(export.entry, ret, edges)]
    /\ pc' = "export_ready"
    /\ UNCHANGED <<graphVars, exprVars, expandVars, file>>

\* with open(output_path, "w", ...) as handle: the file is created or truncated
ExportOpen ==
    /\ export.entry # ""
    /\ pc = export_open_at(export.entry)
    /\ file' = [exists |-> TRUE, holds |-> export.entry, content |-> <<>>]
    /\ pc' = "export_opened"
    /\ UNCHANGED <<graphVars, exprVars, expandVars, export>>

\* The body of the with statement: the writes, and the close
ExportWrite ==
    /\ pc = "export_opened"
    /\ \E content \in {IF export.entry \in PathExports
                       THEN export_content(export.entry, ret, edges)
                       ELSE export.content} :
        /\ export' = [export EXCEPT !.content = content]
        /\ file' = [file EXCEPT !.content = content.items]
    /\ pc' = "export_done"
    /\ UNCHANGED <<graphVars, exprVars, expandVars>>

ExportNext ==
    ExportBuild \/ NeighborStage \/ ExpandStage \/ FilterStage
    \/ ExportPrepare \/ ExportOpen \/ ExportWrite

SpecExport == ExportInit /\ [][ExportNext]_vars

(***************************************************************************)
(* export_filtered_instance.  The objects of the selected classes are      *)
(* written to a new resource; with strip_pruned_references their           *)
(* references to the other objects are taken out for the time of the       *)
(* save.  eSet and save belong to pyecore: eSet on a many-valued feature   *)
(* either stores the list it is given or refuses it, and save either       *)
(* writes the resource or raises.                                          *)
(***************************************************************************)
\* _select_objects, lines 1086-1097: the objects of the node list that pass
\* the include and exclude sets, an empty set standing for None.
select_objects(nodes, include_classes, exclude_classes) ==
    {o \in NodeObjs(nodes) :
        /\ include_classes # {} => cls[o] \in include_classes
        /\ exclude_classes # {} => cls[o] \notin exclude_classes}

\* obj.eContainer() not in selected_set
container_not_in(slotOf, o, selected) ==
    \A p \in selected, r \in ContRefs : o \notin Range(slotOf[p][r])

RECURSIVE strip_refs(_, _, _, _, _)
\* Lines 1194-1206 for one object, from its k-th reference on: st is
\* [exc, slots, original_values]; accepts says whether eSet takes a plain
\* list for a many-valued feature.
strip_refs(st, obj, k, pruned_set, accepts) ==
    IF k > Len(AllReferences) \/ st.exc # "" THEN st
    ELSE LET ref == AllReferences[k]
             value == st.slots[obj][ref]
             NotPruned(v) == v \notin pruned_set
             kept == SelectSeq(value, NotPruned)
             saved == [st EXCEPT !.original_values = Append(@, <<obj, ref, value>>)]
         IN IF value = <<>> THEN strip_refs(st, obj, k + 1, pruned_set, accepts)
            ELSE IF Refs[ref].many
            THEN IF Len(kept) = Len(value)
                 THEN strip_refs(st, obj, k + 1, pruned_set, accepts)
                 ELSE IF accepts
                 THEN strip_refs([saved EXCEPT !.slots[obj][ref] = kept],
                                 obj, k + 1, pruned_set, accepts)
                 ELSE [saved EXCEPT !.exc = "BadValueError"]
            ELSE IF value[1] \in pruned_set
                 THEN strip_refs([saved EXCEPT !.slots[obj][ref] = <<>>],
                                 obj, k + 1, pruned_set, accepts)
                 ELSE strip_refs(st, obj, k + 1, pruned_set, accepts)

\* A mutant: the saved values are never put back.
restore_values_none(slotOf, original_values) == slotOf

RECURSIVE restore_from(_, _, _)
restore_from(slotOf, original_values, i) ==
    IF i > Len(original_values) THEN slotOf
    ELSE restore_from([slotOf EXCEPT ![original_values[i][1]][original_values[i][2]] =
                                        original_values[i][3]],
                      original_values, i + 1)

\* for obj, ref, value in original_values: obj.eSet(ref, value)
restore_values(slotOf, original_values) == restore_from(slotOf, original_values, 1)

ClassSets == {{}, {"Foo", "Bar"}, {"Baz"}, {"Bar"}}

StripCalls ==
    [include_classes : ClassSets, exclude_classes : ClassSets,
     dry_run : BOOLEAN, strip_pruned_references : BOOLEAN]

StripInit ==
    /\ pc = "strip_call"
    /\ cls = ExpandClasses
    /\ slots \in SparseInstances
    /\ attributes = ExpandAttributes
    /\ internal_id = ExpandInternalIds
    /\ roots = <<1>>
    /\ objects = <<>>
    /\ edges = <<>>
    /\ params \in StripCalls
    /\ ex = NoExpand
    /\ af = NoLocals
    /\ ret = NoReturn
    /\ ExprIdle
    /\ ExportIdle

\* export_filtered_instance, lines 1165-1192: the selection, the preview,
\* the return of a dry run, the new resource and its roots.
StripSelect ==
    /\ pc = "strip_call"
    /\ \E g \in {build_object_graph(roots, cls, slots)} :
       \E selected \in {select_objects(g.objects, params.include_classes,
                                       params.exclude_classes)} :
       \E out_roots \in {{o \in selected : container_not_in(slots, o, selected)}} :
        /\ objects' = g.objects
        /\ edges' = g.edges
        /\ ex' = [exc |-> "",
                  before |-> slots,
                  all_objects |-> NodeObjs(g.objects),
                  selected_set |-> selected,
                  roots |-> out_roots,
                  pending |-> IF params.strip_pruned_references THEN selected ELSE {},
                  original_values |-> <<>>]
        /\ IF params.dry_run
           THEN /\ pc' = "strip_done"
                /\ ret' = [exc |-> "",
                           stats |-> [total_objects |-> Len(g.objects),
                                      selected_objects |-> Cardinality(selected),
                                      roots |-> Cardinality(out_roots)]]
           ELSE /\ pc' = "strip_loop"
                /\ ret' = ret
    /\ UNCHANGED <<cls, slots, attributes, internal_id, roots, exprVars, params, af,
                   exportVars>>

\* One round of "for obj in selected_set", lines 1196-1206; the set is
\* iterated in an order of its own.
StripObject ==
    /\ pc = "strip_loop"
    /\ \E obj \in ex.pending, accepts \in BOOLEAN :
       \E st \in {strip_refs([exc |-> "", slots |-> slots,
                               original_values |-> ex.original_values],
                              obj, 1, ex.all_objects \ ex.selected_set, accepts)} :
        /\ slots' = st.slots
        /\ ex' = [ex EXCEPT !.pending = @ \ {obj},
                            !.original_values = st.original_values,
                            !.exc = st.exc]
        /\ IF st.exc # ""
           THEN /\ pc' = "strip_raised"
                /\ ret' = [exc |-> st.exc]
           ELSE /\ pc' = pc
                /\ ret' = ret
    /\ UNCHANGED <<cls, attributes, internal_id, roots, objects, edges, exprVars,
                   params, af, exportVars>>

\* out_res.append(obj) for the roots and out_res.save(), lines 1208-1211
StripSave ==
    /\ pc = "strip_loop"
    /\ ex.pending = {}
    /\ \E written \in BOOLEAN :
        IF written
        THEN /\ pc' = "strip_saved"
             /\ ret' = ret
        ELSE /\ pc' = "strip_raised"
             /\ ret' = [exc |-> "OSError"]
    /\ UNCHANGED <<graphVars, exprVars, params, ex, af, exportVars>>

\* Lines 1213-1218: the saved values are put back and the stats returned.
StripRestore ==
    /\ pc = "strip_saved"
    /\ slots' = restore_values(slots, ex.original_values)
    /\ ret' = [exc |-> "",
               stats |-> [total_objects |-> Len(objects),
                          selected_objects |-> Cardinality(ex.selected_set),
                          selected |-> Cardinality(ex.selected_set),
                          roots |-> Cardinality(ex.roots)]]
    /\ pc' = "strip_done"
    /\ UNCHANGED <<cls, attributes, internal_id, roots, objects, edges, exprVars,
                   params, ex, af, exportVars>>

StripNext == StripSelect \/ StripObject \/ StripSave \/ StripRestore

SpecStrip == StripInit /\ [][StripNext]_vars

(***************************************************************************)
(* main of cli.py, block by block.  The command line is                    *)
(* [ecore, instance, requested, filter_expr, dump_instances_filter,        *)
(* expand_from, neighbors_from, neighbors]: ecore is the metamodel source, *)
(* [exists, contents] with the kinds of its top-level objects; instance    *)
(* is <<>> or <<"ok">> or <<"unreadable">>; requested is the set of        *)
(* output options given.  main_result is [ret, log, raised, at, written]:  *)
(* at is the block main has reached and written the options whose file     *)
(* has been written.  What an export does inside is in the sections above; *)
(* here an export returns, or raises one of the exceptions it can raise.   *)
(***************************************************************************)
\* load_metamodel(ecore_path) without the top-level package test: a mutant.
load_metamodel_unchecked(source) ==
    IF ~source.exists THEN [exc |-> "FileNotFoundError", packages |-> <<>>]
    ELSE [exc |-> "",
          packages |-> SelectSeq(source.contents, LAMBDA kind : kind = "EPackage")]

\* load_metamodel(ecore_path): the exception raised, or the packages.
load_metamodel(source) ==
    IF ~source.exists THEN [exc |-> "FileNotFoundError", packages |-> <<>>]
    ELSE LET packages == SelectSeq(source.contents, LAMBDA kind : kind = "EPackage")
         IN IF packages = <<>> THEN [exc |-> "ValueError", packages |-> <<>>]
            ELSE [exc |-> "", packages |-> packages]

\* The blocks of main in the order of the code, by the option each tests;
\* "instance" is the test and the load of lines 207-221.
MainBlocks ==
    <<"dump_metamodel_json", "export_metamodel_mermaid",
      "export_metamodel_plantuml", "export_metamodel_gml",
      "instance", "dump_model", "dump_model_json", "dump_instances_json",
      "prune_dry_run_json", "export_mermaid", "export_instance",
      "export_plantuml", "export_gml", "export_json", "export_edges",
      "export_paths", "export_path_ids">>

\* The options that name an output file.
FileOptions == Range(MainBlocks) \ {"instance", "dump_model"}

\* needs_instance, lines 192-205
needs_instance(a) ==
    a.requested \cap {"dump_model", "dump_model_json", "dump_instances_json",
                      "export_json", "export_edges", "export_paths",
                      "export_path_ids", "export_mermaid", "export_plantuml",
                      "export_gml", "export_instance"} # {}

\* What a block does to the run: it goes on, with or without its file
\* written, or main returns 2 with an error logged, or an exception leaves
\* main.
GoOn == [written |-> FALSE, ret |-> 0, log |-> "", raised |-> ""]
Wrote == [written |-> TRUE, ret |-> 0, log |-> "", raised |-> ""]
Return2(log) == [written |-> FALSE, ret |-> 2, log |-> log, raised |-> ""]
Raised(exc) == [written |-> FALSE, ret |-> 1, log |-> "", raised |-> exc]
RaisedAfterWrite(exc) == [written |-> TRUE, ret |-> 1, log |-> "", raised |-> exc]

\* try: ... except ValueError as exc: logging.error("Invalid filter ..."); return 2
except_value_error(exc) ==
    IF "ValueError" \in ExceptionBases(exc) THEN Return2("Invalid filter expression")
    ELSE Raised(exc)

\* foo == 'Foo': it compiles, and raises NameError on the first node.
UnknownNameText == Text(Compare(Name("foo"), "Eq", Constant("Foo")))

\* The exceptions the evaluation of the expressions can raise in an export.
EvalErrors(texts) ==
    IF UnknownNameText \in Range(texts) THEN {"NameError"} ELSE {}

\* The expressions _apply_filter compiles for an export, in order: the seed
\* expression when a hop count comes with it, the start expression when the
\* export takes one, the filter.
export_texts(entry, a) ==
    (IF a.neighbors # None THEN a.neighbors_from ELSE <<>>)
    \o (IF entry \in ExpandingExports THEN a.expand_from ELSE <<>>)
    \o a.filter_expr

\* The keys of the metrics an export returns: None without expansion.
metrics_keys(entry, a) ==
    (IF a.neighbors_from # <<>> /\ a.neighbors # None
     THEN {"seed_nodes", "nodes_seen", "edges_traversed", "max_hops"} ELSE {})
    \cup (IF entry \in ExpandingExports /\ a.expand_from # <<>>
          THEN {"start_nodes", "nodes_seen", "edges_traversed", "loops_detected",
                "max_depth"} ELSE {})

\* The logging after an export returned: export_json, export_edges,
\* export_paths and export_path_ids read metrics["start_nodes"] whenever
\* metrics is not empty; the diagram exports test "seed_nodes" in stats.
report_metrics(entry, a) ==
    IF entry \in ExpandingExports /\ metrics_keys(entry, a) # {}
       /\ "start_nodes" \notin metrics_keys(entry, a)
    THEN RaisedAfterWrite("KeyError")
    ELSE Wrote

\* One export block: the try/except around the export, then the report.
export_block(entry, a) ==
    LET texts == export_texts(entry, a)
        r == first_raise(texts, 1)
    IN IF r.exc # "" THEN {except_value_error(r.exc)}
       ELSE {report_metrics(entry, a)}
            \cup {except_value_error(e) : e \in EvalErrors(texts)}
            \cup (IF entry \in ExpandingExports /\ a.expand_from # <<>>
                  THEN {except_value_error("KeyError")} ELSE {})

\* The outcomes of the block of main that tests option name.
block_outcomes(name, a) ==
    CASE name = "instance" ->
            IF ~needs_instance(a) /\ "prune_dry_run_json" \notin a.requested
            THEN {GoOn}
            ELSE IF a.instance = <<>> /\ needs_instance(a)
            THEN {Return2("Instance file required for instance operations")}
            ELSE IF a.instance = <<"unreadable">>
            THEN {Return2("Failed to load instance")}
            ELSE {GoOn}
      [] name \notin a.requested -> {GoOn}
      [] name = "dump_model" -> {GoOn}
      [] name = "dump_instances_json" ->
            LET r == first_raise(a.dump_instances_filter, 1)
            IN IF r.exc # "" THEN {except_value_error(r.exc)}
               ELSE {Wrote} \cup {except_value_error(e) :
                                    e \in EvalErrors(a.dump_instances_filter)}
      [] name = "export_instance" -> {Wrote, Raised("BadValueError")}
      [] name \in {"export_paths", "export_path_ids"} /\ a.expand_from = <<>> ->
            {Return2(name \o " requires --expand-from")}
      [] name \in ExpandingExports \cup DiagramExports -> export_block(name, a)
      [] OTHER -> {Wrote}

MetamodelSources ==
    {[exists |-> FALSE, contents |-> <<>>],
     [exists |-> TRUE, contents |-> <<>>],
     [exists |-> TRUE, contents |-> <<"EClass">>],
     [exists |-> TRUE, contents |-> <<"EPackage">>],
     [exists |-> TRUE, contents |-> <<"EPackage", "EClass", "EPackage">>]}

\* At most MaxRequested output options on one command line.
MaxRequested == 2

RequestSets == {S \in SUBSET Range(MainBlocks) :
                    "instance" \notin S /\ Cardinality(S) <= MaxRequested}

MainCommandLines ==
    {[ecore |-> source, instance |-> inst, requested |-> S,
      filter_expr |-> f, dump_instances_filter |-> df,
      expand_from |-> e, neighbors_from |-> n[1], neighbors |-> n[2]] :
        source \in MetamodelSources,
        inst \in {<<>>, <<"ok">>, <<"unreadable">>},
        S \in RequestSets,
        f \in {<<>>, <<GoodFilter>>, <<BadText>>, <<UnknownNameText>>},
        df \in {<<>>, <<BadText>>},
        e \in {<<>>, <<GoodStart>>},
        n \in {<<<<>>, None>>, <<<<GoodSeed>>, Depth(1)>>}}

MainInit ==
    /\ pc = "main_call"
    /\ GraphIdle
    /\ expr = NoText
    /\ outcome = NoPredicate
    /\ ctx_node = NoNode
    /\ result = NoneV
    /\ argv \in {a \in MainCommandLines :
                    /\ a.dump_instances_filter # <<>> =>
                            "dump_instances_json" \in a.requested
                    /\ a.filter_expr # <<>> =>
                            a.requested \cap (ExpandingExports \cup DiagramExports) # {}}
    /\ main_result = [ret |-> 0, log |-> "", raised |-> "", at |-> 0, written |-> {}]
    /\ ExpandIdle
    /\ ExportIdle

\* main, lines 146-150: load_metamodel inside try/except Exception
MainLoad ==
    /\ pc = "main_call"
    /\ \E loaded \in {load_metamodel(argv.ecore)} :
        IF loaded.exc # ""
        THEN /\ main_result' = [main_result EXCEPT !.ret = 2,
                                    !.log = "Failed to load metamodel"]
             /\ pc' = "main_done"
        ELSE /\ main_result' = [main_result EXCEPT !.at = 1]
             /\ pc' = "main_run"
    /\ UNCHANGED <<graphVars, expr, outcome, ctx_node, result, argv, expandVars,
                   exportVars>>

\* The next block of main
MainBlock ==
    /\ pc = "main_run"
    /\ main_result.at <= Len(MainBlocks)
    /\ \E name \in {MainBlocks[main_result.at]} :
       \E out \in block_outcomes(name, argv) :
        /\ main_result' =
                [ret |-> out.ret, log |-> out.log, raised |-> out.raised,
                 at |-> main_result.at + 1,
                 written |-> IF out.written THEN main_result.written \cup {name}
                             ELSE main_result.written]
        /\ pc' = IF out.raised # "" THEN "main_raised"
                 ELSE IF out.ret # 0 THEN "main_done"
                 ELSE "main_run"
    /\ UNCHANGED <<graphVars, expr, outcome, ctx_node, result, argv, expandVars,
                   exportVars>>

\* return 0
MainReturn ==
    /\ pc = "main_run"
    /\ main_result.at > Len(MainBlocks)
    /\ main_result' = [main_result EXCEPT !.ret = 0]
    /\ pc' = "main_done"
    /\ UNCHANGED <<graphVars, expr, outcome, ctx_node, result, argv, expandVars,
                   exportVars>>

MainNext == MainLoad \/ MainBlock \/ MainReturn

SpecMain == MainInit /\ [][MainNext]_vars

(***************************************************************************)
(* An export of main on expressions that use an attribute only one class   *)
(* declares: _apply_filter stage by stage, then the except clause of the   *)
(* try statement around the export.                                        *)
(***************************************************************************)
\* Object 2, the Bar, carries the attribute code; no other object does.
CodeAttributes ==
    [o \in ExpObjects |->
        IF o = 2 THEN [name |-> StrV("n2"), code |-> StrV("x")]
        ELSE ExpandAttributes[o]]

\* code == 'x'
CodeText == Text(Compare(Name("code"), "Eq", Constant("x")))

CodeCalls ==
    {[filter_expr |-> f, expand_expr |-> e[1], expand_depth |-> e[2],
      expand_classes |-> {}, neighbor_expr |-> n, neighbor_hops |-> h] :
        f \in {None, <<CodeText>>},
        e \in {<<None, None>>, <<<<CodeText>>, Depth(1)>>, <<<<GoodSeed>>, Depth(1)>>},
        n \in {None, <<CodeText>>, <<GoodSeed>>},
        h \in {None, Depth(0), Depth(1)}}

CodeInit ==
    /\ pc = "filter_call"
    /\ cls = ExpandClasses
    /\ slots \in SparseInstances
    /\ attributes = CodeAttributes
    /\ internal_id = ExpandInternalIds
    /\ roots = <<1>>
    /\ \E g \in {build_object_graph(roots, cls, slots)} :
        /\ objects = g.objects
        /\ edges = g.edges
    /\ params \in {c \in CodeCalls : c.neighbor_expr = None <=> c.neighbor_hops = None}
    /\ ex = NoExpand
    /\ af = NoLocals
    /\ ret = NoReturn
    /\ ExprIdle
    /\ ExportIdle

\* An exception of the export reaches the except ValueError clause of main,
\* cli.py lines 378-392.
ExportExcept ==
    /\ pc = "filter_raised"
    /\ \E out \in {except_value_error(ret.exc)} :
        /\ main_result' = [ret |-> out.ret, log |-> out.log, raised |-> out.raised]
        /\ pc' = IF out.raised # "" THEN "main_raised" ELSE "main_done"
    /\ UNCHANGED <<graphVars, expr, outcome, ctx_node, result, argv, expandVars,
                   exportVars>>

CodeNext == NeighborStage \/ ExpandStage \/ FilterStage \/ ExportExcept

SpecCode == CodeInit /\ [][CodeNext]_vars

(***************************************************************************)
(* Properties of build_object_graph.                                       *)
(***************************************************************************)
\* The containment slots (parent, reference, position) that hold object o,
\* over the parents that belong to the instance.
Holders(o) ==
    {t \in Contained(roots, slots) \X ContRefs \X (1..NObj) :
        /\ t[3] <= Len(slots[t[1]][t[2]])
        /\ slots[t[1]][t[2]][t[3]] = o}

Occurrences(o) == {i \in 1..Len(objects) : objects[i].obj = o}

\* C1: every object reachable from the roots through containment appears
\* exactly once in the returned node list, also when it is reachable by two
\* containment paths or listed as a root twice.
C1_ReachableExactlyOnce ==
    pc = "graph_done" =>
        /\ \A o \in Contained(roots, slots) : Cardinality(Occurrences(o)) = 1
        /\ \A o \in Objects : Cardinality(Occurrences(o)) <= 1

C1_Witness ==
    /\ pc = "graph_done"
    /\ Len(roots) = 2 /\ roots[1] = roots[2]
    /\ \E o \in Objects : Cardinality(Holders(o)) >= 2
    /\ Len(objects) = NObj

EdgeKey(e) == <<e.src_id, e.feature, e.dst_id>>

\* C2: the returned edge list holds at most one edge per (parent, feature,
\* child): an already seen child is not visited again and no edge of its
\* subtree is recorded a second time.
C2_NoEdgeRecordedTwice ==
    pc = "graph_done" =>
        \A i, j \in 1..Len(edges) : EdgeKey(edges[i]) = EdgeKey(edges[j]) => i = j

\* A true containment forest: no root listed twice, no root held by a
\* containment slot, every other object held by exactly one slot.
IsForest ==
    /\ \A i, j \in 1..Len(roots) : roots[i] = roots[j] => i = j
    /\ \A o \in Range(roots) : Holders(o) = {}
    /\ \A o \in Contained(roots, slots) : Cardinality(Holders(o)) <= 1

\* C3: on a true containment forest the number of containment edges equals
\* the number of returned nodes that are not roots.
C3_ForestEdgeCount ==
    (pc = "graph_done" /\ IsForest) =>
        Len(edges) = Len(objects) - Cardinality(Range(roots))

C3_Witness ==
    /\ pc = "graph_done"
    /\ IsForest
    /\ Len(roots) = 2
    /\ Len(objects) = NObj
    /\ Len(edges) = NObj - 2
    /\ \E o \in Objects : slots[o][4] # <<>>

RECURSIVE FirstVisit(_, _, _)
RECURSIVE FirstVisitSlots(_, _, _, _, _)
\* The pre-order containment walk from object o, reached by path: acc is the
\* sequence of [obj, path] of the objects met so far; o is added unless it
\* is there, and then its containment slots are walked, features in
\* declaration order and slot members in index order.
FirstVisit(o, path, acc) ==
    IF o \in {acc[i].obj : i \in 1..Len(acc)} THEN acc
    ELSE FirstVisitSlots(o, path, 1, 1, Append(acc, [obj |-> o, path |-> path]))

\* The walk of o from member i of its k-th containment feature on.
FirstVisitSlots(o, path, k, i, acc) ==
    IF k > Len(ContainmentFeatures) THEN acc
    ELSE LET r == ContainmentFeatures[k] IN
         IF i > Len(slots[o][r]) THEN FirstVisitSlots(o, path, k + 1, 1, acc)
         ELSE FirstVisitSlots(o, path, k, i + 1,
                FirstVisit(slots[o][r][i],
                           path \o "/" \o Refs[r].name \o "[" \o Str(i - 1) \o "]",
                           acc))

RECURSIVE FirstVisitRoots(_, _)
\* The walk of the roots from the i-th on, in input order.
FirstVisitRoots(i, acc) ==
    IF i > Len(roots) THEN acc
    ELSE FirstVisitRoots(i + 1,
            FirstVisit(roots[i], "/" \o cls[roots[i]] \o "[" \o Str(i - 1) \o "]", acc))

PreOrder == FirstVisitRoots(1, <<>>)

\* C16: the k-th returned node has the id "o<k>", so the ids are distinct
\* and contiguous from o1, and the list is in the pre-order of the
\* containment walk.
C16_IdsFollowPreOrder ==
    pc = "graph_done" =>
        /\ Len(objects) = Len(PreOrder)
        /\ \A k \in 1..Len(objects) :
            /\ objects[k].obj_id = "o" \o Str(k)
            /\ objects[k].obj = PreOrder[k].obj
        /\ \A j, k \in 1..Len(objects) : objects[j].obj_id = objects[k].obj_id => j = k

\* Two roots, the first with a child: the child comes before the second root.
C16_Witness ==
    /\ pc = "graph_done"
    /\ Len(roots) = 2 /\ roots[1] # roots[2]
    /\ Len(objects) = NObj
    /\ objects[1].obj = roots[1]
    /\ objects[2].obj \notin Range(roots)
    /\ objects[NObj].obj = roots[2]
    /\ objects[NObj].obj_id = "o" \o Str(NObj)

\* The path of a root, and of a member of a containment slot.
RootPath(i) == "/" \o cls[roots[i]] \o "[" \o Str(i - 1) \o "]"
ChildPath(parent_path, r, i) ==
    parent_path \o "/" \o Refs[r].name \o "[" \o Str(i - 1) \o "]"

\* C17: a node first visited as a root has the path "/<class>[<index in
\* roots>]"; any other node has the path of the parent that discovered it
\* first followed by "/<feature>[<slot index>]", 0 for a scalar slot; the
\* path first assigned is the path returned.
C17_FirstDiscoveredPath ==
    pc = "graph_done" =>
        /\ Len(objects) = Len(PreOrder)
        /\ \A k \in 1..Len(objects) :
            /\ objects[k].path = PreOrder[k].path
            /\ \/ \E i \in 1..Len(roots) :
                    /\ roots[i] = objects[k].obj
                    /\ objects[k].path = RootPath(i)
               \/ \E j \in 1..(k - 1), r \in ContRefs, i \in 1..NObj :
                    /\ i <= Len(slots[objects[j].obj][r])
                    /\ slots[objects[j].obj][r][i] = objects[k].obj
                    /\ ~Refs[r].many => i = 1
                    /\ objects[k].path = ChildPath(objects[j].path, r, i)

\* A root Foo with two children in the many-valued feature children.
C17_Witness ==
    /\ pc = "graph_done"
    /\ Len(roots) = 1 /\ cls[roots[1]] = "Foo"
    /\ Len(slots[roots[1]][1]) = 2
    /\ Len(objects) = 3
    /\ objects[1].path = "/Foo[0]"
    /\ objects[2].path = "/Foo[0]/children[0]"
    /\ objects[3].path = "/Foo[0]/children[1]"

(***************************************************************************)
(* Properties of the expression engine.                                    *)
(***************************************************************************)
RECURSIVE Subnodes(_)
\* The nodes of a tree.
Subnodes(tree) ==
    {tree} \cup UNION {Subnodes(tree.kids[i]) : i \in 1..Len(tree.kids)}

\* What the grammar allows: boolean connectives, the comparisons, names,
\* constants, list, tuple, set and dict literals, subscripts and calls.
GrammarElements ==
    {"Expression", "Load",
     "BoolOp", "And", "Or", "UnaryOp", "Not",
     "Compare", "Eq", "NotEq", "Lt", "LtE", "Gt", "GtE", "In", "NotIn",
     "Name", "Constant", "List", "Tuple", "Set", "Dict",
     "Subscript", "Index", "Slice", "Call"}

HasKeywords(n) == \E i \in 1..Len(n.kids) : n.kids[i].type = "keyword"

\* The constructs the claim lists.  A keyword node belongs to a call with
\* keyword arguments, which is listed on its own.
Disallowed(tree) ==
    \E n \in Subnodes(tree) :
        \/ n.type \notin GrammarElements \cup {"keyword"}
        \/ n.type = "Name" /\ Len(n.id) >= 2 /\ Head(n.id) = "_" /\ Head(Tail(n.id)) = "_"
        \/ n.type = "Call" /\ ~(n.kids[1].type = "Name"
                                /\ n.kids[1].id \in {"is_class", "is_kind_of"})
        \/ n.type = "Call" /\ HasKeywords(n)

\* C4: build_predicate raises ValueError, and returns no predicate, for
\* every parsed expression holding a disallowed construct, and returns the
\* predicate of every other parsed expression.
C4_RejectsExactlyDisallowed ==
    (pc = "expr_built" /\ expr.syntax_ok) =>
        IF Disallowed(expr.body)
        THEN outcome.exc = "ValueError" /\ outcome.code = NoTree
        ELSE outcome.exc = "" /\ outcome.code = Expression(expr.body)

C4_Witness ==
    /\ pc = "expr_built"
    /\ expr = Text(BoolOp("And",
                <<Call(Name("is_class"), <<Constant("Foo")>>,
                       <<keyword("name", Constant("Foo"))>>),
                  Compare(Name("eclass"), "Eq", Constant("Foo"))>>))
    /\ outcome.exc = "ValueError"

Uncompilable(text) == ~text.syntax_ok \/ Disallowed(text.body)

\* C5: every text that cannot be compiled makes build_predicate raise a
\* ValueError, and makes every export of main log an invalid filter
\* expression and return 2.
C5_UncompilableIsInvalidFilter ==
    /\ (pc = "expr_built" /\ Uncompilable(expr)) =>
            "ValueError" \in ExceptionBases(outcome.exc)
    /\ (pc = "main_done" /\ Uncompilable(expr)) =>
            /\ main_result.ret = 2
            /\ main_result.log = "Invalid filter expression"
            /\ main_result.raised = ""

IsTrue(v) == v = BoolV(TRUE)

\* C6: eclass == 'Foo' is true exactly of the nodes of class Foo, and
\* is_kind_of('Foo') exactly of the nodes whose class is Foo or has Foo
\* among its supertypes, whatever attributes the class declares.
C6_ClassPredicatesSound ==
    pc = "expr_evaluated" =>
        /\ expr = Text(Compare(Name("eclass"), "Eq", Constant("Foo"))) =>
                (IsTrue(result) <=> ctx_node.obj.eclass = "Foo")
        /\ expr = Text(Call(Name("is_kind_of"), <<Constant("Foo")>>, <<>>)) =>
                (IsTrue(result) <=>
                    (ctx_node.obj.eclass = "Foo"
                     \/ "Foo" \in eAllSuperTypes(ctx_node.obj.eclass)))

(***************************************************************************)
(* Properties of _expand_from.                                             *)
(***************************************************************************)
\* The targets of the references of object o.
Succ(o) == UNION {Range(slots[o][r]) : r \in RefIdx}

RECURSIVE Within(_, _)
\* The objects at directed reference distance at most n from a member of S.
Within(S, n) ==
    IF n = 0 THEN S
    ELSE LET near == Within(S, n - 1) IN near \cup UNION {Succ(o) : o \in near}

\* The objects reachable from a member of S along references.
Reach(S) == Closure(S, RefIdx, slots)

StartObjs == Range(ex.start)

ReturnedObjs == {info.obj : info \in ret.nodes}

WithDepth(d) == [params EXCEPT !.expand_depth = d]

\* C7, as stated: with max_depth None the call returns the start nodes and
\* the nodes one hop away from them, the result of the call with depth 1.
C7_NoneIsSingleHop ==
    (pc = "expand_done" /\ params.expand_depth = None) =>
        /\ ReturnedObjs = Within(StartObjs, 1)
        /\ ret.nodes = expand_from(objects, WithDepth(Depth(1))).nodes

\* C7, amended: with max_depth None the call is unbounded; it returns every
\* node reachable from the start nodes, the result of the call with depth -1.
C7_NoneIsUnbounded ==
    (pc = "expand_done" /\ params.expand_depth = None) =>
        /\ ReturnedObjs = Reach(StartObjs)
        /\ ret = expand_from(objects, WithDepth(Depth(-1)))

C7_Witness ==
    /\ pc = "expand_done"
    /\ params.expand_depth = None
    /\ ReturnedObjs # Within(StartObjs, 1)
    /\ ret.metrics.max_depth > 1

\* a -> b -> c -> d, with no other reference out of the four.
IsChain(a, b, c, d) ==
    /\ Cardinality({a, b, c, d}) = 4
    /\ Succ(a) = {b} /\ Succ(b) = {c} /\ Succ(c) = {d} /\ Succ(d) = {}

\* C8: depth 0 returns the start nodes, a positive depth N the nodes at
\* distance at most N from a start node, a negative depth all nodes
\* reachable from the start nodes; on the chain A->B->C->D started at A,
\* depth 0 gives {A}, depth 1 {A,B}, depths -1 and 3 {A,B,C,D}.
C8_DepthSemantics ==
    (pc = "expand_done" /\ params.expand_depth # None) =>
        LET d == params.expand_depth[1] IN
        /\ d = 0 => ReturnedObjs = StartObjs
        /\ d > 0 => ReturnedObjs = Within(StartObjs, d)
        /\ d < 0 => ReturnedObjs = Reach(StartObjs)
        /\ \A a, b, c, e \in DOMAIN slots :
            (IsChain(a, b, c, e) /\ ex.start = <<a>>) =>
                /\ d = 0 => ReturnedObjs = {a}
                /\ d = 1 => ReturnedObjs = {a, b}
                /\ d \in {-1, 3} => ReturnedObjs = {a, b, c, e}

C8_Witness ==
    /\ pc = "expand_done"
    /\ params.expand_depth = Depth(3)
    /\ \E a, b, c, e \in DOMAIN slots :
        /\ IsChain(a, b, c, e)
        /\ ex.start = <<a>>
        /\ ReturnedObjs = {a, b, c, e}
    /\ ret.metrics.max_depth = 3

\* A cycle of three objects, each reachable from a start node.
Cycles3 ==
    {t \in Reach(StartObjs) \X Reach(StartObjs) \X Reach(StartObjs) :
        /\ Cardinality({t[1], t[2], t[3]}) = 3
        /\ t[2] \in Succ(t[1]) /\ t[3] \in Succ(t[2]) /\ t[1] \in Succ(t[3])}

\* C9: a call with depth -1 comes to an end on every graph, cycles
\* included; when it returns and a cycle of three nodes is reachable from the
\* start nodes, the three nodes are returned with every other reachable node
\* and loops_detected is at least 1.
C9_UnboundedTerminates ==
    /\ [](( pc = "expand_call" /\ params.expand_depth = Depth(-1))
            => <>(pc \in {"expand_done", "expand_raised"}))
    /\ []((pc = "expand_done" /\ params.expand_depth = Depth(-1) /\ Cycles3 # {}) =>
            /\ \A t \in Cycles3 : {t[1], t[2], t[3]} \subseteq ReturnedObjs
            /\ ReturnedObjs = Reach(StartObjs)
            /\ ret.metrics.loops_detected >= 1)

C9_Witness ==
    /\ pc = "expand_done"
    /\ params.expand_depth = Depth(-1)
    /\ Cycles3 # {}
    /\ Cardinality(ReturnedObjs) = NExp
    /\ ret.metrics.loops_detected >= 1

(***************************************************************************)
(* Properties of _apply_filter.                                            *)
(***************************************************************************)
\* C10: when both expansions ran, the returned metrics hold every key of
\* both stages with the value that stage produced.
C10_MetricsKeepStageValues ==
    (pc = "filter_done" /\ af.neighbor_metrics # None /\ af.metrics # None) =>
        /\ \A k \in DOMAIN af.metrics[1] : ret.metrics[1][k] = af.metrics[1][k]
        /\ \A k \in DOMAIN af.neighbor_metrics[1] :
                ret.metrics[1][k] = af.neighbor_metrics[1][k]

(***************************************************************************)
(* Properties of _expand_from with allowed classes.                        *)
(***************************************************************************)
\* The position of the target a step of the innermost loop has just taken.
TakenPos == <<ex'.at[1], ex'.at[2], ex'.at[3] - 1>>

TakenTarget == slots[ex.frontier[TakenPos[1]]][AllReferences[TakenPos[2]]][TakenPos[3]]

\* A step of the innermost loop on a target whose class is not allowed.
RefusedEdgeStep ==
    /\ pc = "expand_loop" /\ pc' = "expand_loop"
    /\ ex.depth = ex'.depth /\ ex.at # ex'.at
    /\ params.expand_classes # {}
    /\ cls[TakenTarget] \notin params.expand_classes

\* C11: with allowed classes, a traversed edge whose target's class is not
\* allowed is still counted in edges_traversed, in a scalar slot as in a
\* many-valued slot.
C11_RefusedEdgesCounted ==
    [][RefusedEdgeStep => ex'.edges_traversed = ex.edges_traversed + 1]_vars

(***************************************************************************)
(* Properties of export_edges.                                             *)
(***************************************************************************)
\* The nodes _apply_filter returned to the export.
FilteredObjs == NodeObjs(ret.nodes.items)

\* The non-containment references between two filtered nodes, one per slot
\* item: <<source, reference, item index>>.
FilteredReferences ==
    {x \in FilteredObjs \X (1..Len(AllReferences)) \X (1..NExp) :
        /\ ~Refs[AllReferences[x[2]]].containment
        /\ x[3] <= Len(slots[x[1]][AllReferences[x[2]]])
        /\ slots[x[1]][AllReferences[x[2]]][x[3]] \in FilteredObjs}

\* The reference rows of the written file.
ReferenceRows == SelectSeq(file.content, LAMBDA row : ~row.containment)

\* The preferred ids of the filtered nodes.
PreferredIds ==
    {preferred_ids(ret.nodes.items)[o] : o \in FilteredObjs}

EdgesWritten == pc = "export_done" /\ export.entry = "export_edges"

\* C12: export_edges writes one reference edge for every non-containment
\* reference between two filtered nodes, with the preferred ids of its two
\* ends, and every id of every written edge is the preferred id of a
\* filtered node.
C12_ReferenceEdgesOfFilteredNodes ==
    EdgesWritten =>
        LET id_map == preferred_ids(ret.nodes.items)
        IN /\ Len(ReferenceRows) = Cardinality(FilteredReferences)
           /\ \A x \in FilteredReferences :
                \E i \in 1..Len(ReferenceRows) :
                    /\ ReferenceRows[i].src_id = id_map[x[1]]
                    /\ ReferenceRows[i].feature = Refs[AllReferences[x[2]]].name
                    /\ ReferenceRows[i].dst_id =
                            id_map[slots[x[1]][AllReferences[x[2]]][x[3]]]
           /\ \A i \in 1..Len(file.content) :
                /\ file.content[i].src_id \in PreferredIds
                /\ file.content[i].dst_id \in PreferredIds

\* The second half of C12 alone: it holds.
C12_IdsArePreferred ==
    EdgesWritten =>
        \A i \in 1..Len(file.content) :
            /\ file.content[i].src_id \in PreferredIds
            /\ file.content[i].dst_id \in PreferredIds

(***************************************************************************)
(* Properties of _neighbor_expand.                                         *)
(***************************************************************************)
\* The neighbour stage ran with a hop count of at least 0 and returned.
NeighborsReturned ==
    /\ pc = "filter_expand"
    /\ af.neighbor_metrics # None
    /\ params.neighbor_hops[1] >= 0

\* The seeds: the input nodes the seed expression selects.
SeedObjs ==
    Range(expand_select(objects, build_predicate(params.neighbor_expr[1]), {}).objs)

NeighborObjs == NodeObjs(af.objects.items)

\* Every reference target of every input node is an input node.
TargetsAreNodes ==
    \A o \in NodeObjs(objects) : Succ(o) \subseteq NodeObjs(objects)

\* C13: with hops >= 0, _neighbor_expand returns exactly the input nodes at
\* directed distance at most hops from a seed; when every reference target
\* is an input node, nodes_seen is the number of returned nodes.
C13_NeighborsWithinHops ==
    NeighborsReturned =>
        /\ NeighborObjs = Within(SeedObjs, params.neighbor_hops[1]) \cap NodeObjs(objects)
        /\ Len(af.objects.items) = Cardinality(NeighborObjs)
        /\ TargetsAreNodes =>
                af.neighbor_metrics[1].nodes_seen = Len(af.objects.items)

\* One seed with two one-hop neighbours and one two-hop neighbour, hops = 1:
\* the seed and the two one-hop neighbours are returned, and no other node.
C13_Witness ==
    /\ NeighborsReturned
    /\ params.neighbor_hops = Depth(1)
    /\ Cardinality(SeedObjs) = 1
    /\ \E s \in SeedObjs :
        /\ Cardinality(Succ(s) \ {s}) = 2
        /\ Cardinality(Within({s}, 2) \ Within({s}, 1)) = 1
        /\ Within({s}, 2) \subseteq NodeObjs(objects)
        /\ NeighborObjs = {s} \cup Succ(s)
    /\ TargetsAreNodes
    /\ af.neighbor_metrics[1].nodes_seen = 3

(***************************************************************************)
(* Properties of the stages of _apply_filter.                              *)
(***************************************************************************)
\* The objects an expression selects among the objects of S.
Selected(text, S) ==
    {o \in S : predicate(build_predicate(text).code,
                         build_context(ObjOf(o), ObjMap(objects)[o].obj_id,
                                       ObjMap(objects)[o].path),
                         ObjOf(o)).v = "True"}

\* What the reachability stage leaves of the neighbour stage's nodes.
StageTwoObjs ==
    IF params.expand_expr = None THEN NeighborObjs
    ELSE LET start == Selected(params.expand_expr[1], NeighborObjs)
         IN IF params.expand_depth[1] < 0 THEN Reach(start)
            ELSE Within(start, params.expand_depth[1])

\* What the filter stage leaves of the reachability stage's nodes.
StageThreeObjs ==
    IF params.filter_expr = None THEN StageTwoObjs
    ELSE Selected(params.filter_expr[1], StageTwoObjs)

FilterReturnedObjs == NodeObjs(ret.nodes.items)

\* C14: _apply_filter runs the neighbour stage, then the reachability stage
\* on its result, then the filter on the result of that: the returned nodes
\* are the nodes of the reachability result that satisfy the filter, and the
\* two returned path maps have entries for returned nodes only.
C14_StagesInOrder ==
    pc = "filter_done" =>
        /\ NodeObjs(af.filtered.items) = StageTwoObjs
        /\ FilterReturnedObjs = StageThreeObjs
        /\ Len(ret.nodes.items) = Cardinality(FilterReturnedObjs)
        /\ ret.path_map # None => DOMAIN ret.path_map[1] \subseteq FilterReturnedObjs
        /\ ret.id_path_map # None =>
                DOMAIN ret.id_path_map[1] \subseteq FilterReturnedObjs

\* Expansion to depth 1 and a filter both given: a node the filter accepts
\* within depth 1 of the start is returned, one of the same class beyond
\* that depth is not, and a reached node the filter refuses has no entry in
\* the returned path maps.
C14_Witness ==
    /\ pc = "filter_done"
    /\ params.expand_expr # None /\ params.filter_expr # None
    /\ params.expand_depth = Depth(1)
    /\ \E near \in FilterReturnedObjs, far \in NodeObjs(af.objects.items) :
        /\ cls[near] = cls[far]
        /\ far \notin FilterReturnedObjs
        /\ far \notin NodeObjs(af.filtered.items)
        /\ far \in Selected(params.filter_expr[1], {far})
    /\ \E o \in NodeObjs(af.filtered.items) :
        /\ o \notin FilterReturnedObjs
        /\ o \in DOMAIN af.path_map[1]
        /\ o \notin DOMAIN ret.path_map[1]

(***************************************************************************)
(* Properties of the exports that take expressions.                        *)
(***************************************************************************)
\* The expressions the call gives.
GivenTexts ==
    {t[1] : t \in {params.filter_expr, params.expand_expr, params.neighbor_expr} \ {None}}

\* _apply_filter has returned: every stage has run and every given
\* expression has been compiled.
StagesDone ==
    /\ ret # NoReturn
    /\ ret.exc = ""
    /\ \A t \in GivenTexts : build_predicate(t).exc = ""

\* The file is as it was before the call: not created, not truncated.
FileKept ==
    /\ file.exists = export.before.exists
    /\ file.holds = export.before.holds

StrippedAndReturned ==
    /\ pc = "strip_done"
    /\ params.strip_pruned_references
    /\ ~params.dry_run

\* C19: when export_filtered_instance with strip_pruned_references has
\* returned, every reference slot of every selected object holds the
\* targets it held before the call.
C19_StrippedSlotsRestored ==
    StrippedAndReturned =>
        \A o \in ex.selected_set, r \in RefIdx : slots[o][r] = ex.before[o][r]

\* A call that stripped a scalar slot and a many-valued slot and returned.
C19_Witness ==
    /\ StrippedAndReturned
    /\ \E i, j \in 1..Len(ex.original_values) :
        /\ Refs[ex.original_values[i][2]].many
        /\ ~Refs[ex.original_values[j][2]].many
    /\ slots = ex.before

(***************************************************************************)
(* Properties of the empty results of _neighbor_expand and _expand_from.   *)
(***************************************************************************)
\* The expression compiles and, evaluated on the nodes, raises nothing and
\* selects nothing.
NoMatch(text, nodes) ==
    LET built == build_predicate(text)
        sel == expand_select(nodes, built, params.expand_classes)
    IN built.exc = "" /\ sel.exc = "" /\ sel.objs = <<>>

\* The neighbour stage was asked for and no node matches the seed expression.
NoSeedMatch ==
    /\ pc # "filter_call"
    /\ params.neighbor_expr # None /\ params.neighbor_hops # None
    /\ NoMatch(params.neighbor_expr[1], objects)

\* The neighbour stage is over, the reachability stage was asked for and no
\* node of its input matches the start expression.
NoStartMatch ==
    /\ pc \notin {"filter_call", "filter_expand"}
    /\ "objects" \in DOMAIN af
    /\ params.expand_expr # None
    /\ NoMatch(params.expand_expr[1], af.objects.items)

\* C20: with no node matching the seed expression _neighbor_expand returns
\* an empty list and four metrics of 0; with no node matching the start
\* expression _expand_from returns an empty list, five metrics of 0 and two
\* empty path maps; neither raises.
C20_NoMatchIsEmptyNotError ==
    /\ NoSeedMatch =>
            /\ "objects" \in DOMAIN af
            /\ af.objects.items = <<>>
            /\ af.neighbor_metrics =
                    <<[seed_nodes |-> 0, nodes_seen |-> 0,
                       edges_traversed |-> 0, max_hops |-> 0]>>
    /\ NoStartMatch =>
            /\ pc # "filter_raised"
            /\ af.filtered.items = <<>>
            /\ af.metrics =
                    <<[start_nodes |-> 0, nodes_seen |-> 0, edges_traversed |-> 0,
                       loops_detected |-> 0, max_depth |-> 0]>>
            /\ DOMAIN af.path_map[1] = {}
            /\ DOMAIN af.id_path_map[1] = {}

\* A call where no node matches the seed expression, so that the
\* reachability stage has no node to start from either.
C20_Witness ==
    /\ pc = "filter_done"
    /\ NoSeedMatch
    /\ NoStartMatch
    /\ ret.nodes.items = <<>>
    /\ ret.path_map = <<<<>>>>
    /\ ret.metrics[1].seed_nodes = 0 /\ ret.metrics[1].start_nodes = 0

\* A call where the reachability stage has nodes to look at and none of
\* them matches the start expression.
C20_NoStartAmongNodes ==
    /\ pc = "filter_done"
    /\ NoStartMatch
    /\ af.objects.items # <<>>
    /\ ret.nodes.items = <<>>

(***************************************************************************)
(* Properties of main.                                                     *)
(***************************************************************************)
\* C21: a run of main that returns 0 has written every output file the
\* command line asks for; when the metamodel cannot be loaded, a source
\* without a top-level package included, main returns 2 and no file has
\* been written; load_metamodel, when it returns, returns a package.
C21_ReturnZeroWroteAll ==
    /\ (pc = "main_done" /\ main_result.ret = 0) =>
            argv.requested \cap FileOptions \subseteq main_result.written
    /\ (pc \in {"main_run", "main_done", "main_raised"}
            /\ main_result.at # 0) =>
            /\ load_metamodel(argv.ecore).exc = ""
            /\ load_metamodel(argv.ecore).packages # <<>>
            /\ \E i \in 1..Len(argv.ecore.contents) : argv.ecore.contents[i] = "EPackage"
    /\ (pc \in {"main_run", "main_done", "main_raised"}
            /\ \A i \in 1..Len(argv.ecore.contents) : argv.ecore.contents[i] # "EPackage") =>
            /\ pc = "main_done"
            /\ main_result.ret = 2
            /\ main_result.written = {}

\* A run that returns 0 after writing a metamodel file and an instance file.
C21_Witness ==
    /\ pc = "main_done"
    /\ main_result.ret = 0
    /\ argv.requested = {"dump_metamodel_json", "export_json"}
    /\ main_result.written = argv.requested

(***************************************************************************)
(* Properties of the frontier of _expand_from.                             *)
(***************************************************************************)
NoRepeat(seq) == \A i, j \in 1..Len(seq) : seq[i] = seq[j] => i = j

\* The frontier and the next frontier hold seen objects, each once, and
\* share none.
FrontiersOfSeen ==
    (pc = "expand_loop" /\ ~ex.returned) =>
        /\ NoRepeat(ex.frontier) /\ NoRepeat(ex.next_frontier)
        /\ Range(ex.frontier) \cap Range(ex.next_frontier) = {}
        /\ Range(ex.frontier) \cup Range(ex.next_frontier) \subseteq ex.seen

\* One turn of the innermost loop body that does not raise.
EdgeStep ==
    /\ pc = "expand_loop" /\ pc' = "expand_loop"
    /\ ex.depth = ex'.depth /\ ex.at # ex'.at

\* The end of one turn of the while loop.
LevelStep ==
    /\ pc = "expand_loop" /\ pc' = "expand_loop"
    /\ ex'.depth = ex.depth + 1

\* C22: an object enters the frontier at most once and is expanded at most
\* once: only an unseen target is appended to the next frontier, it is
\* seen from then on, the seen set never shrinks, and the frontier of the
\* next level is the next frontier; an edge to a seen target adds one to
\* loops_detected and nothing to the frontier.
C22_FrontierOnce ==
    /\ []FrontiersOfSeen
    /\ [][EdgeStep =>
            /\ ex.seen \subseteq ex'.seen
            /\ ex'.frontier = ex.frontier
            /\ IF TakenTarget \in ex.seen
               THEN /\ ex'.loops_detected = ex.loops_detected + 1
                    /\ ex'.next_frontier = ex.next_frontier
                    /\ ex'.seen = ex.seen
               ELSE /\ ex'.loops_detected = ex.loops_detected
                    /\ ex'.next_frontier \in
                            {ex.next_frontier, Append(ex.next_frontier, TakenTarget)}
                    /\ ex'.seen = ex.seen \cup Range(ex'.next_frontier)]_vars
    /\ [][LevelStep =>
            /\ ex'.frontier = ex.next_frontier
            /\ ex'.next_frontier = <<>>
            /\ ex'.seen = ex.seen]_vars

\* A traversal that has come back to a seen object at its second level.
C22_Witness ==
    /\ pc = "expand_loop"
    /\ ex.depth >= 1
    /\ ex.loops_detected >= 1
    /\ Cardinality(ex.seen) >= 3
    /\ ex.next_frontier # <<>>

(***************************************************************************)
(* Properties of the metrics of _neighbor_expand.                          *)
(***************************************************************************)
\* The nodes whose reference slots a traversal of so many hops scans: the
\* frontiers of its hops, which are the objects nearer to a seed than hops.
ExpandedWithin(hops) == IF hops >= 1 THEN Within(SeedObjs, hops - 1) ELSE {}

RECURSIVE SlotTargets(_, _)
\* The number of targets in the reference slots r.. of object o.
SlotTargets(o, r) ==
    IF r > Len(Refs) THEN 0 ELSE Len(slots[o][r]) + SlotTargets(o, r + 1)

RECURSIVE TargetOccurrences(_)
\* The number of (node, reference slot, target) occurrences of the nodes S.
TargetOccurrences(S) ==
    IF S = {} THEN 0
    ELSE LET o == CHOOSE x \in S : TRUE
         IN SlotTargets(o, 1) + TargetOccurrences(S \ {o})

\* C23: edges_traversed of _neighbor_expand is the number of (expanded
\* node, reference slot, target) occurrences, each counted once, containment
\* slots and other slots alike.
C23_EdgesCountedOnce ==
    NeighborsReturned =>
        af.neighbor_metrics[1].edges_traversed =
            TargetOccurrences(ExpandedWithin(params.neighbor_hops[1]))

(***************************************************************************)
(* Properties of the path maps of _expand_from.                            *)
(***************************************************************************)
\* The number of hops from the start nodes to object o, from n on.
RECURSIVE HopsFrom(_, _)
HopsFrom(o, n) == IF o \in Within(StartObjs, n) THEN n ELSE HopsFrom(o, n + 1)

Hops(o) == HopsFrom(o, 0)

\* The objects with a reference to object o.
Pred(o) == {q \in ExpObjects : o \in Succ(q)}

\* The display name and the preferred identifier of object o.
PathLabel(kind, o) ==
    IF kind = "label" THEN node_label(o) ELSE id_label(o, IdMap(objects)[o])

RECURSIVE WalkPaths(_, _, _)
\* The paths of d + 1 segments, each "/" and a label, along the reference
\* walks of d hops from a start node to object o.
WalkPaths(kind, o, d) ==
    IF d = 0
    THEN IF o \in StartObjs THEN {"/" \o PathLabel(kind, o)} ELSE {}
    ELSE {p \o "/" \o PathLabel(kind, o) :
            p \in UNION {WalkPaths(kind, q, d - 1) : q \in Pred(o)}}

\* Both maps hold exactly the nodes seen; a start node maps to "/" and its
\* label, and a node first reached at hop d to a path of d + 1 segments
\* along a walk of d hops from a start node.
PathsHaveHopSegments ==
    (pc = "expand_loop" /\ ~ex.returned) =>
        /\ DOMAIN ex.path_map = ex.seen
        /\ DOMAIN ex.id_path_map = ex.seen
        /\ \A o \in StartObjs :
            /\ ex.path_map[o] = "/" \o node_label(o)
            /\ ex.id_path_map[o] = "/" \o id_label(o, IdMap(objects)[o])
        /\ \A o \in ex.seen :
            /\ ex.path_map[o] \in WalkPaths("label", o, Hops(o))
            /\ ex.id_path_map[o] \in WalkPaths("id", o, Hops(o))

\* The node whose slot the step scans.
TakenSource == ex.frontier[TakenPos[1]]

\* C24: in the label-path map of _expand_from a start node maps to "/" and
\* its display name, and any other node to the path of the node that first
\* discovered it, "/" and its own display name (its name when that is a
\* non-empty string, else the empty string), a path of d + 1 segments for
\* a node first reached at hop d; a later discovery changes no path; the
\* id-path map is built the same way from the preferred identifiers.
C24_PathOfFirstDiscoverer ==
    /\ []PathsHaveHopSegments
    /\ [][EdgeStep =>
            /\ \A o \in ex.seen :
                /\ ex'.path_map[o] = ex.path_map[o]
                /\ ex'.id_path_map[o] = ex.id_path_map[o]
            /\ \A o \in ex'.seen \ ex.seen :
                /\ o = TakenTarget
                /\ ex'.path_map[o] =
                        ex.path_map[TakenSource] \o "/" \o node_label(o)
                /\ ex'.id_path_map[o] =
                        ex.id_path_map[TakenSource] \o "/"
                            \o id_label(o, IdMap(objects)[o])
                /\ node_label(o) =
                        (IF attributes[o].name.t = "str" THEN attributes[o].name.v
                         ELSE "")]_vars
    /\ [][(pc = "expand_loop" /\ pc' = "expand_done" /\ ~ex.returned) =>
            /\ ret'.path_map = ex.path_map
            /\ ret'.id_path_map = ex.id_path_map]_vars

\* A node without a name, two hops from the start node through a node
\* with a persisted identifier, in the returned maps.
C24_Witness ==
    /\ pc = "expand_done"
    /\ StartObjs = {1}
    /\ \E o \in ex.seen :
        /\ Hops(o) = 2
        /\ node_label(o) = ""
        /\ ret.path_map[o] = "/n1/n2/"
        /\ ret.id_path_map[o] = "/o1/_x2/o3"
    /\ ex.loops_detected >= 1

(***************************************************************************)
(* Properties of the allowed classes of _expand_from.                      *)
(***************************************************************************)
Allowed(o) == cls[o] \in params.expand_classes

RECURSIVE AllowedWithin(_, _)
\* The objects a walk of at most n hops reaches from a member of S when
\* every object on it is of an allowed class.
AllowedWithin(S, n) ==
    IF n = 0 THEN {o \in S : Allowed(o)}
    ELSE LET near == AllowedWithin(S, n - 1)
         IN near \cup {o \in UNION {Succ(q) : q \in near} : Allowed(o)}

\* C25: with allowed classes, every node _expand_from returns, a start
\* node included, is of an allowed class and is reached from a start node
\* through nodes of allowed classes only.
C25_OnlyAllowedClasses ==
    (pc = "expand_done" /\ params.expand_classes # {}) =>
        /\ \A o \in StartObjs : Allowed(o)
        /\ \A o \in ReturnedObjs : Allowed(o)
        /\ ReturnedObjs \subseteq AllowedWithin(StartObjs, NExp)
        /\ ReturnedObjs = ex.seen

\* A call that returned a node with a reference to a node of another class,
\* which has itself a reference to a node of an allowed class: neither is
\* returned.
C25_Witness ==
    /\ pc = "expand_done"
    /\ params.expand_classes = {"Foo", "Bar"}
    /\ params.expand_depth = Depth(-1)
    /\ Cardinality(ReturnedObjs) = 1
    /\ \E o \in ReturnedObjs : \E q \in Succ(o) : \E t \in Succ(q) :
        /\ ~Allowed(q)
        /\ Allowed(t)
        /\ t \notin ReturnedObjs

(***************************************************************************)
(* Properties of _expand_from on targets outside its node list.            *)
(***************************************************************************)
\* The loop body has taken a target, the last one being outside the node
\* list.
OutsideTargetTaken ==
    IF pc \in {"expand_loop", "expand_raised", "expand_done"}
        /\ ex.frontier # <<>> /\ ex.at[3] > 1
    THEN slots[ex.frontier[ex.at[1]]][AllReferences[ex.at[2]]][ex.at[3] - 1]
            \notin NodeObjs(objects)
    ELSE FALSE

\* C26: _expand_from does not raise when the traversal takes a reference
\* target that is not in its node list.
C26_OutsideTargetNoError ==
    OutsideTargetTaken => pc # "expand_raised"

(***************************************************************************)
(* Properties of the metrics of _expand_from.                              *)
(***************************************************************************)
\* The edges counted that neither added a node nor were detected as loops.
EdgesUnaccounted(st) ==
    st.edges_traversed
        - ((Cardinality(st.seen) - Len(st.start)) + st.loops_detected)

\* C27: edges_traversed >= (nodes_seen - start_nodes) + loops_detected in
\* the metrics _expand_from returns, with equality when no allowed classes
\* are given: a counted edge adds one node to the seen set or one to
\* loops_detected, and with allowed classes may do neither.
C27_EdgesAccounted ==
    /\ [](pc = "expand_done" =>
            /\ ret.metrics.edges_traversed >=
                    (ret.metrics.nodes_seen - ret.metrics.start_nodes)
                        + ret.metrics.loops_detected
            /\ params.expand_classes = {} =>
                    ret.metrics.edges_traversed =
                        (ret.metrics.nodes_seen - ret.metrics.start_nodes)
                            + ret.metrics.loops_detected)
    /\ [][EdgeStep =>
            /\ EdgesUnaccounted(ex') >= EdgesUnaccounted(ex)
            /\ ex'.edges_traversed = ex.edges_traversed + 1 =>
                    \/ /\ Cardinality(ex'.seen) = Cardinality(ex.seen) + 1
                       /\ ex'.loops_detected = ex.loops_detected
                    \/ /\ ex'.seen = ex.seen
                       /\ ex'.loops_detected = ex.loops_detected + 1
                    \/ /\ ex'.seen = ex.seen
                       /\ ex'.loops_detected = ex.loops_detected
                       /\ params.expand_classes # {}]_vars

\* A call without allowed classes that added a node and detected a loop.
EdgesAllAccounted ==
    /\ pc = "expand_done"
    /\ params.expand_classes = {}
    /\ ret.metrics.nodes_seen > ret.metrics.start_nodes
    /\ ret.metrics.loops_detected >= 1

\* A call with allowed classes that returned more edges than nodes added
\* and loops detected, having added a node and detected a loop.
C27_Witness ==
    /\ pc = "expand_done"
    /\ params.expand_classes # {}
    /\ ret.metrics.nodes_seen > ret.metrics.start_nodes
    /\ ret.metrics.loops_detected >= 1
    /\ ret.metrics.edges_traversed >
            (ret.metrics.nodes_seen - ret.metrics.start_nodes)
                + ret.metrics.loops_detected

(***************************************************************************)
(* Properties of a predicate on a context without the name it uses.        *)
(***************************************************************************)
\* The name a comparison text reads.
UsedName(text) == text.body.kids[1].id

\* The context of some node of the list has no entry for the name.
Lacks(text, nodes) ==
    \E i \in 1..Len(nodes) :
        UsedName(text) \notin
            DOMAIN build_context(ObjOf(nodes[i].obj), nodes[i].obj_id, nodes[i].path)

\* The stage at hand evaluates its expression on such a node.
EvaluatesUnknownName ==
    \/ /\ pc = "filter_call"
       /\ params.neighbor_expr # None /\ params.neighbor_hops # None
       /\ Lacks(params.neighbor_expr[1], objects)
    \/ /\ pc = "filter_expand"
       /\ params.expand_expr # None
       /\ Lacks(params.expand_expr[1], af.objects.items)
    \/ /\ pc = "filter_filter"
       /\ params.filter_expr # None
       /\ Lacks(params.filter_expr[1], af.filtered.items)

\* C28: a predicate evaluated on a node whose context has no entry for a
\* name it uses raises an error that is not a ValueError: the seed, start
\* or filter stage aborts with it instead of passing the node over, and
\* main does not answer it with "Invalid filter expression".
C28_UnknownNameAborts ==
    /\ [][EvaluatesUnknownName =>
            /\ pc' = "filter_raised"
            /\ ret'.exc = "NameError"
            /\ "ValueError" \notin ExceptionBases(ret'.exc)]_vars
    /\ [][(pc = "filter_raised" /\ ret.exc = "NameError") =>
            /\ pc' = "main_raised"
            /\ main_result'.raised = "NameError"
            /\ main_result'.log # "Invalid filter expression"
            /\ main_result'.ret # 2]_vars

\* The filter code == 'x' on a node list that holds the object with the
\* attribute and an object without it: NameError leaves main.
C28_Witness ==
    /\ pc = "main_raised"
    /\ main_result.raised = "NameError"
    /\ params.filter_expr = <<CodeText>>
    /\ "filtered" \in DOMAIN af
    /\ 2 \in NodeObjs(af.filtered.items)
    /\ Lacks(CodeText, af.filtered.items)

(***************************************************************************)
(* Properties of the metrics report of main.                               *)
(***************************************************************************)
\* main was asked for a JSON or edge export only, with --neighbors-from and
\* --neighbors and without --expand-from, and an export has written its
\* file.
NeighborOnlyExportWritten ==
    /\ pc \in {"main_done", "main_raised"}
    /\ argv.requested # {}
    /\ argv.requested \subseteq {"export_json", "export_edges"}
    /\ argv.neighbors_from # <<>> /\ argv.neighbors # None
    /\ argv.expand_from = <<>>
    /\ main_result.written \cap argv.requested # {}

\* C29: a JSON or edge export with neighbourhood expansion and without
\* --expand-from that succeeds makes main return 0: the report of the
\* metrics does not fail on the key start_nodes.
C29_NeighborMetricsReported ==
    NeighborOnlyExportWritten =>
        /\ pc = "main_done"
        /\ main_result.ret = 0

(***************************************************************************)
(* Properties of the hop count of _neighbor_expand.                        *)
(***************************************************************************)
\* The neighbour stage ran and returned.
NeighborStageReturned ==
    /\ pc = "filter_expand"
    /\ af.neighbor_metrics # None

\* C30: with a hop count of 0 or less _neighbor_expand traverses nothing:
\* it returns exactly the seed nodes, with edges_traversed 0 and max_hops
\* 0, so a negative hop count is no unbounded traversal; whatever the hop
\* count, max_hops is at most the greater of the hop count and 0.
C30_NoHopsNoTraversal ==
    NeighborStageReturned =>
        /\ params.neighbor_hops[1] <= 0 =>
                /\ NeighborObjs = SeedObjs
                /\ Len(af.objects.items) = Cardinality(SeedObjs)
                /\ af.neighbor_metrics[1].seed_nodes = Cardinality(SeedObjs)
                /\ af.neighbor_metrics[1].nodes_seen = Cardinality(SeedObjs)
                /\ af.neighbor_metrics[1].edges_traversed = 0
                /\ af.neighbor_metrics[1].max_hops = 0
        /\ af.neighbor_metrics[1].max_hops <=
                (IF params.neighbor_hops[1] > 0 THEN params.neighbor_hops[1] ELSE 0)

\* A call with hop count -1 whose seed has a reference to a node that is no
\* seed: the seed alone is returned.
C30_Witness ==
    /\ NeighborStageReturned
    /\ params.neighbor_hops = Depth(-1)
    /\ Cardinality(SeedObjs) = 1
    /\ \E s \in SeedObjs : (Succ(s) \cap NodeObjs(objects)) \ SeedObjs # {}
    /\ NeighborObjs = SeedObjs
====
